---- MODULE Spec2Model ----
(***************************************************************************)
(* Model of the money-transfer ledger update of Banking-Copilot            *)
(* (src/money_transfer.py, class MoneyTransfer).                           *)
(*                                                                         *)
(* Money is counted in integer cents.  A Python float that is not a number *)
(* of cents is one of two extra elements: NaN (float('nan')) and NotNumber *)
(* (a value that is neither int nor float, such as None or a str).         *)
(* A DataFrame is the sequence of its rows; the column-less pd.DataFrame() *)
(* that load_data installs after a failed load is the empty sequence.      *)
(* A transaction id "TX<digits>" is the sequence of its digits; an id in   *)
(* which the pattern TX(\d+) finds nothing is the empty sequence.          *)
(* A CSV file is the sequence of its records; a float cell of a record is  *)
(* its decimal text (a sign and the digits of the cents), empty for NaN.   *)
(* Time is counted in days.  A date cell is a record of its kind and its   *)
(* instant: a pandas Timestamp without timezone ("naive"), a Timestamp     *)
(* with timezone ("aware"), NaT, or text: "str" for text without a UTC     *)
(* offset, as strftime('%Y-%m-%d %H:%M:%S') writes it, "str_tz" for text   *)
(* with a UTC offset and "bad" for text that is not a date.                *)
(***************************************************************************)
EXTENDS Integers, Sequences, FiniteSets, TLC

VARIABLES
    accounts,           \* self.accounts: the in-memory accounts table
    transactions,       \* self.transactions: the in-memory transactions table
    users,              \* self.users: the in-memory users table
    accounts_file,      \* contents of accounts.csv
    transactions_file,  \* contents of transaction_history.csv
    call,               \* method and arguments of the last call
    result,             \* envelope returned by the last call
    peer,               \* a second MoneyTransfer instance on the same files:
                        \* its tables, its last call and the envelope returned
    session             \* st.session_state of the chat: the user, the keys in
                        \* processed_messages and the last run of a handler

vars == <<accounts, transactions, users, accounts_file, transactions_file, call, result, peer, session>>

----------------------------------------------------------------------------
(* Bounds of the model *)

\* a call is made only while the transactions table holds fewer than
\* 2 * MaxPairs rows
MaxPairs == 3

----------------------------------------------------------------------------
(* Floats *)

NaN == -2000000000
NotNumber == -2000000001

IsNaN(x) == x = NaN
FSub(a, b) == IF IsNaN(a) \/ IsNaN(b) THEN NaN ELSE a - b
FAdd(a, b) == IF IsNaN(a) \/ IsNaN(b) THEN NaN ELSE a + b
FNeg(a) == IF IsNaN(a) THEN NaN ELSE 0 - a
FLt(a, b) == ~IsNaN(a) /\ ~IsNaN(b) /\ a < b
FLe(a, b) == ~IsNaN(a) /\ ~IsNaN(b) /\ a <= b
FGt(a, b) == ~IsNaN(a) /\ ~IsNaN(b) /\ a > b
FGe(a, b) == ~IsNaN(a) /\ ~IsNaN(b) /\ a >= b

----------------------------------------------------------------------------
(* Transaction id text *)

RECURSIVE ParseInt(_)
\* int("0012") = 12
ParseInt(ds) ==
    IF ds = << >> THEN 0
    ELSE ParseInt(SubSeq(ds, 1, Len(ds) - 1)) * 10 + ds[Len(ds)]

RECURSIVE Digits(_)
\* the decimal digits of n, without padding
Digits(n) ==
    IF n < 10 THEN << n >> ELSE Append(Digits(n \div 10), n % 10)

RECURSIVE ZeroPad(_, _)
ZeroPad(ds, width) ==
    IF Len(ds) >= width THEN ds ELSE ZeroPad(<< 0 >> \o ds, width)

\* f"{n:04d}"
Format04d(n) == ZeroPad(Digits(n), 4)

----------------------------------------------------------------------------
(* Helpers over rows *)

Min(S) == CHOOSE x \in S : \A y \in S : x <= y
Max(S) == CHOOSE x \in S : \A y \in S : x >= y

\* .iloc[0] of a filtered frame whose rows are at the positions S of the
\* unfiltered one; 0 when the filtered frame is empty
First(S) == IF S = {} THEN 0 ELSE Min(S)

RECURSIVE SumBalances(_)
\* accounts['balance'].sum() in float arithmetic
SumBalances(acc) ==
    IF acc = << >> THEN 0
    ELSE FAdd(SumBalances(SubSeq(acc, 1, Len(acc) - 1)), acc[Len(acc)].balance)

----------------------------------------------------------------------------
(* Dates *)

Timestamp(t) == [kind |-> "naive", t |-> t]
TimestampTz(t) == [kind |-> "aware", t |-> t]
NaT == [kind |-> "NaT", t |-> 0]

\* pd.Timestamp.strftime('%Y-%m-%d %H:%M:%S'), and str() of a Timestamp
strftime(t) == [kind |-> "str", t |-> t]
DateTextTz(t) == [kind |-> "str_tz", t |-> t]
BadDateText == [kind |-> "bad", t |-> 0]

\* the text that to_csv writes for a date cell: the empty cell for NaT
date_to_text(d) ==
    IF d.kind = "naive" THEN strftime(d.t)
    ELSE IF d.kind = "aware" THEN DateTextTz(d.t)
    ELSE IF d.kind = "NaT" THEN BadDateText
    ELSE d

\* pd.to_datetime(cell, errors='coerce') of one cell
to_datetime(d) ==
    IF d.kind = "str" THEN Timestamp(d.t)
    ELSE IF d.kind = "str_tz" THEN TimestampTz(d.t)
    ELSE IF d.kind = "bad" THEN NaT
    ELSE d

----------------------------------------------------------------------------
(* CSV text *)

\* the cell that to_csv writes for a float: the decimal text of the number,
\* the empty cell for NaN
float_to_text_unsigned(x) ==
    IF IsNaN(x) THEN << >> ELSE << 0 >> \o Digits(IF x < 0 THEN 0 - x ELSE x)

float_to_text(x) ==
    IF IsNaN(x) THEN << >>
    ELSE IF x < 0 THEN << 1 >> \o Digits(0 - x) ELSE << 0 >> \o Digits(x)

\* the float that read_csv parses from a cell: NaN from the empty cell
text_to_float(c) ==
    IF c = << >> THEN NaN
    ELSE IF c[1] = 1 THEN 0 - ParseInt(Tail(c)) ELSE ParseInt(Tail(c))

\* self.accounts.to_csv(self.accounts_file, index=False)
to_csv_accounts(acc) ==
    IF acc = << >> THEN << >>
    ELSE [k \in 1 .. Len(acc) |-> [acc[k] EXCEPT !.balance = float_to_text(@)]]

\* pd.read_csv(self.accounts_file)
read_csv_accounts(af) ==
    IF af = << >> THEN << >>
    ELSE [k \in 1 .. Len(af) |-> [af[k] EXCEPT !.balance = text_to_float(@)]]

\* self.transactions.to_csv(self.transactions_file, index=False)
to_csv_transactions(txs) ==
    IF txs = << >> THEN << >>
    ELSE [k \in 1 .. Len(txs) |-> [txs[k] EXCEPT !.amount = float_to_text(@),
                                                 !.balance_after = float_to_text(@),
                                                 !.date = date_to_text(@)]]

\* pd.read_csv(self.transactions_file): the date column holds the text
read_csv_transactions(tf) ==
    IF tf = << >> THEN << >>
    ELSE [k \in 1 .. Len(tf) |-> [tf[k] EXCEPT !.amount = text_to_float(@),
                                               !.balance_after = text_to_float(@)]]

\* lines 78-87: the date column is converted with errors='coerce', after all
\* three files were read
convert_dates(txs) ==
    IF txs = << >> THEN << >>
    ELSE [k \in 1 .. Len(txs) |-> [txs[k] EXCEPT !.date = to_datetime(@)]]

----------------------------------------------------------------------------
(* Persisted data and inputs *)

default_user_ids == {"USR001", "USR002", "USR003", "USR004", "USR005"}

UserIds == {"USR001", "USR002", "USR999"}
AccountTypes == {"REGULAR_SAVINGS", "CHECKING"}
Amounts == {NotNumber, NaN, -500, 0, 5000, 1000000, 1000001}
Times == {0, 1}
SaveOutcomes == {"ok", "fail_accounts", "fail_transactions"}
LoadOutcomes == {"ok", "fail_accounts", "fail_transactions", "fail_users"}

UsersCsv ==
    << [user_id |-> "USR001"], [user_id |-> "USR002"] >>

Acct(id, owner, type, bal, cur) ==
    [account_id |-> id, owner_id |-> owner, account_type |-> type,
     balance |-> bal, currency |-> cur, status |-> "active"]

\* the rows written in accounts.csv
AccountsTable ==
    << Acct("ACC001", "USR001", "REGULAR_SAVINGS", 1000000, "USD"),
       Acct("ACC002", "USR001", "CHECKING", 2000, "EUR"),
       Acct("ACC003", "USR002", "REGULAR_SAVINGS", 5000, "USD"),
       Acct("ACC004", "USR001", "REGULAR_SAVINGS", 70000, "USD") >>

AccountsCsv == to_csv_accounts(AccountsTable)

Txn(id, acct, date, cat, amt, bal) ==
    [transaction_id |-> id, account_id |-> acct, date |-> date,
     category |-> cat, amount |-> amt, balance_after |-> bal]

\* the rows written in transaction_history.csv: two histories, the second
\* with an id that lacks the digits
TransactionsTables ==
    { << Txn(<<0, 0, 0, 1>>, "ACC001", Timestamp(0), "Groceries", -1000, 1000000),
         Txn(<<0, 0, 0, 3>>, "ACC003", Timestamp(0), "Transfers", 2000, 2000) >>,
      << Txn(<<0, 0, 0, 1>>, "ACC001", Timestamp(0), "Groceries", -1000, 1000000),
         Txn(<< >>, "ACC003", Timestamp(0), "Transfers", 2000, 2000) >> }

TransactionsCsvs == { to_csv_transactions(t) : t \in TransactionsTables }

----------------------------------------------------------------------------
(* load_data and save_data *)

EmptyFrame == << >>

\* The three files are read in the order accounts, transactions, users; the
\* first read that fails leaves that table and the later ones as empty frames
\* (a missing file fails before the first read: "fail_accounts").
load_data(af, tf, uf, outcome) ==
    [accounts     |-> IF outcome = "fail_accounts" THEN EmptyFrame
                      ELSE read_csv_accounts(af),
     transactions |-> IF outcome \in {"fail_accounts", "fail_transactions"}
                      THEN EmptyFrame
                      ELSE IF outcome = "fail_users" THEN read_csv_transactions(tf)
                      ELSE convert_dates(read_csv_transactions(tf)),
     users        |-> IF outcome = "ok" THEN uf ELSE EmptyFrame,
     ok           |-> outcome = "ok"]

\* save_data that appends the new rows to transaction_history.csv instead of
\* rewriting the file
save_data_append(acc, txs, af, tf, outcome) ==
    [ok                |-> outcome = "ok",
     accounts_file     |-> IF outcome = "fail_accounts" THEN af
                           ELSE to_csv_accounts(acc),
     transactions_file |-> IF outcome = "ok"
                           THEN tf \o to_csv_transactions(SubSeq(txs, Len(txs) - 1, Len(txs)))
                           ELSE tf]

\* accounts.csv is written first, then transaction_history.csv; an exception
\* in either write makes save_data return False.  A write that fails leaves
\* its file as it was; a failure of the second write leaves the first file
\* written.
save_data(acc, txs, af, tf, outcome) ==
    [ok                |-> outcome = "ok",
     accounts_file     |-> IF outcome = "fail_accounts" THEN af
                           ELSE to_csv_accounts(acc),
     transactions_file |-> IF outcome = "ok" THEN to_csv_transactions(txs) ELSE tf]

----------------------------------------------------------------------------
(* Validator *)

validate_user(usrs, user_id) ==
    IF usrs = EmptyFrame
    THEN user_id \in default_user_ids
    ELSE { k \in 1 .. Len(usrs) : usrs[k].user_id = user_id } # {}

\* self.accounts['owner_id'] on the column-less frame raises KeyError
ColumnsMissing(acc) == acc = EmptyFrame

\* True when get_account_by_type raises instead of returning
get_account_by_type_raises(usrs, acc, user_id) ==
    validate_user(usrs, user_id) /\ ColumnsMissing(acc)

\* The position of the returned row in acc, 0 for None
get_account_by_type(usrs, acc, user_id, account_type) ==
    IF ~validate_user(usrs, user_id) THEN 0
    ELSE First({ k \in 1 .. Len(acc) : /\ acc[k].owner_id = user_id
                                        /\ acc[k].account_type = account_type })

CEILING == 1000000

\* validate_amount without the ceiling
validate_amount_no_ceiling(amount) ==
    IF amount = NotNumber
    THEN [ok |-> FALSE, message |-> "Amount must be a number"]
    ELSE IF FLe(amount, 0)
    THEN [ok |-> FALSE, message |-> "Amount must be greater than zero"]
    ELSE [ok |-> TRUE, message |-> "Amount valid"]

\* validate_amount with amount >= 10000 in place of amount > 10000
validate_amount_exclusive(amount) ==
    IF amount = NotNumber
    THEN [ok |-> FALSE, message |-> "Amount must be a number"]
    ELSE IF FLe(amount, 0)
    THEN [ok |-> FALSE, message |-> "Amount must be greater than zero"]
    ELSE IF FGe(amount, CEILING)
    THEN [ok |-> FALSE, message |-> "Transfers over $10,000 require additional authorization"]
    ELSE [ok |-> TRUE, message |-> "Amount valid"]

validate_amount(amount) ==
    IF amount = NotNumber
    THEN [ok |-> FALSE, message |-> "Amount must be a number"]
    ELSE IF FLe(amount, 0)
    THEN [ok |-> FALSE, message |-> "Amount must be greater than zero"]
    ELSE IF FGt(amount, CEILING)
    THEN [ok |-> FALSE, message |-> "Transfers over $10,000 require additional authorization"]
    ELSE [ok |-> TRUE, message |-> "Amount valid"]

\* the suggestion naming the last account with funds instead of the first
Suggestion_last(acc, user_id, account_type, amount) ==
    LET S == { j \in 1 .. Len(acc) : /\ acc[j].owner_id = user_id
                                     /\ acc[j].account_type # account_type
                                     /\ FGe(acc[j].balance, amount) }
    IN IF S = {} THEN "" ELSE acc[CHOOSE k \in S : \A j \in S : j <= k].account_id

\* The account named in the suggestion (by its account_id here, by its
\* account_name in the message): the first row of the same owner with
\* another type and a balance of at least the amount; "" when there is none
Suggestion(acc, user_id, account_type, amount) ==
    LET k == First({ j \in 1 .. Len(acc) : /\ acc[j].owner_id = user_id
                                            /\ acc[j].account_type # account_type
                                            /\ FGe(acc[j].balance, amount) })
    IN IF k = 0 THEN "" ELSE acc[k].account_id

\* check_sufficient_funds without the comparison of balance and amount
check_sufficient_funds_skipped(usrs, acc, user_id, account_type, amount) ==
    LET k == get_account_by_type(usrs, acc, user_id, account_type)
    IN IF k = 0
       THEN [ok |-> FALSE, message |-> "Account not found", suggestion |-> ""]
       ELSE [ok |-> TRUE, message |-> "Sufficient funds", suggestion |-> ""]

check_sufficient_funds(usrs, acc, user_id, account_type, amount) ==
    LET k == get_account_by_type(usrs, acc, user_id, account_type)
    IN IF k = 0
       THEN [ok |-> FALSE, message |-> "Account not found", suggestion |-> ""]
       ELSE IF FLt(acc[k].balance, amount)
       THEN [ok |-> FALSE, message |-> "Insufficient funds",
             suggestion |-> Suggestion(acc, user_id, account_type, amount)]
       ELSE [ok |-> TRUE, message |-> "Sufficient funds", suggestion |-> ""]

\* validate_currency that looks at the currency of the source account only
validate_currency_source_only(usrs, acc, source_user_id, target_user_id, source_account_type, target_account_type) ==
    LET s == get_account_by_type(usrs, acc, source_user_id, source_account_type)
        t == get_account_by_type(usrs, acc, target_user_id, target_account_type)
    IN IF s = 0 \/ t = 0
       THEN [ok |-> FALSE, message |-> "One or both accounts not found"]
       ELSE IF acc[s].currency # "USD"
       THEN [ok |-> FALSE, message |-> "Both accounts must use USD for transfers"]
       ELSE [ok |-> TRUE, message |-> "Currency validation passed"]

validate_currency(usrs, acc, source_user_id, target_user_id, source_account_type, target_account_type) ==
    LET s == get_account_by_type(usrs, acc, source_user_id, source_account_type)
        t == get_account_by_type(usrs, acc, target_user_id, target_account_type)
    IN IF s = 0 \/ t = 0
       THEN [ok |-> FALSE, message |-> "One or both accounts not found"]
       ELSE IF acc[s].currency # "USD" \/ acc[t].currency # "USD"
       THEN [ok |-> FALSE, message |-> "Both accounts must use USD for transfers"]
       ELSE [ok |-> TRUE, message |-> "Currency validation passed"]

----------------------------------------------------------------------------
(* Transaction ID Allocator *)

\* pd.to_numeric of the extracted digits leaves NaN for an id without digits,
\* the column is then float64, and formatting a float with :04d raises
\* ValueError.
generate_transaction_id_raises(txs) ==
    txs # EmptyFrame /\ \E k \in 1 .. Len(txs) : txs[k].transaction_id = << >>

\* generate_transaction_id that reads the ids from transaction_history.csv
generate_transaction_id_from_file(txs) ==
    IF transactions_file = << >> THEN Format04d(1)
    ELSE Format04d(Max({ ParseInt(transactions_file[k].transaction_id) :
                           k \in 1 .. Len(transactions_file) }) + 1)

\* generate_transaction_id that numbers the rows: count of rows plus one
generate_transaction_id_count(txs) == Format04d(Len(txs) + 1)

\* generate_transaction_id that continues from the id of the last row
generate_transaction_id_last(txs) ==
    IF txs = EmptyFrame THEN Format04d(1)
    ELSE Format04d(ParseInt(txs[Len(txs)].transaction_id) + 1)

generate_transaction_id(txs) ==
    IF txs = EmptyFrame THEN Format04d(1)
    ELSE Format04d(Max({ ParseInt(txs[k].transaction_id) : k \in 1 .. Len(txs) }) + 1)

----------------------------------------------------------------------------
(* Transfer Executor *)

NoTxId == << >>

Envelope(status, code, message) ==
    [status |-> status, code |-> code, message |-> message, suggestion |-> "",
     source_balance |-> 0, target_balance |-> 0,
     transaction_id |-> NoTxId, timestamp |-> 0]

Failure(code, message) == Envelope("error", code, message)

\* What the body of the try statement leaves behind: whether it raised, the
\* envelope it returned otherwise, the tables as it left them, the checks it
\* evaluated (in order) and the outcome of save_data ("none": not called).
Outcome(raised, env, acc, txs, af, tf, checks, save) ==
    [raised |-> raised, env |-> env, accounts |-> acc, transactions |-> txs,
     accounts_file |-> af, transactions_file |-> tf, checks |-> checks, save |-> save]

\* the position of the first row whose account_id is id
IndexOfAccount(acc, id) == First({ k \in 1 .. Len(acc) : acc[k].account_id = id })

\* update_balances that writes to every row of the owner and type of the
\* located rows
update_balances_by_type(acc, source_idx, target_idx, new_source_balance, new_target_balance) ==
    [k \in 1 .. Len(acc) |->
        IF /\ acc[k].owner_id = acc[target_idx].owner_id
           /\ acc[k].account_type = acc[target_idx].account_type
        THEN [acc[k] EXCEPT !.balance = new_target_balance]
        ELSE IF /\ acc[k].owner_id = acc[source_idx].owner_id
                /\ acc[k].account_type = acc[source_idx].account_type
        THEN [acc[k] EXCEPT !.balance = new_source_balance]
        ELSE acc[k]]

\* self.accounts.at[source_idx, 'balance'] = new_source_balance, then
\* self.accounts.at[target_idx, 'balance'] = new_target_balance
update_balances(acc, source_idx, target_idx, new_source_balance, new_target_balance) ==
    [[acc EXCEPT ![source_idx].balance = new_source_balance]
          EXCEPT ![target_idx].balance = new_target_balance]

\* the user-name lookup that falls back to the user id instead of raising
user_lookup_never_raises(usrs, user_id) == FALSE

\* self.users[self.users['user_id'] == user_id].iloc[0] raises KeyError on the
\* column-less frame and IndexError when no row matches
user_lookup_raises(usrs, user_id) ==
    { k \in 1 .. Len(usrs) : usrs[k].user_id = user_id } = {}

\* source_txn with the amount not negated
source_txn_unsigned(transaction_id, source_account_id, current_timestamp, amount, new_source_balance) ==
    Txn(transaction_id, source_account_id, strftime(current_timestamp), "Transfers",
        amount, new_source_balance)

source_txn(transaction_id, source_account_id, current_timestamp, amount, new_source_balance) ==
    Txn(transaction_id, source_account_id, strftime(current_timestamp), "Transfers",
        FNeg(amount), new_source_balance)

target_txn(next_transaction_id, target_account_id, current_timestamp, amount, new_target_balance) ==
    Txn(next_transaction_id, target_account_id, strftime(current_timestamp), "Transfers",
        amount, new_target_balance)

\* concat that puts the new rows in front of the table
concat_in_front(txs, rows) == rows \o txs

\* pd.concat([self.transactions, pd.DataFrame(rows)], ignore_index=True)
concat(txs, rows) == txs \o rows

\* restore that leaves the table as the call changed it
restore_nothing(backup, current) == current

\* Restoring the tables from the copies taken on entry
restore(backup, current) == backup

\* Lines 287-381: the accounts are located, the balances changed, the two rows
\* appended and the tables saved.
execute(acc, txs, usrs, af, tf, accounts_backup, transactions_backup, now, source_user_id, target_user_id, amount, source_account_type, target_account_type, save_outcome, checks) ==
    LET s == get_account_by_type(usrs, acc, source_user_id, source_account_type)
        t == get_account_by_type(usrs, acc, target_user_id, target_account_type)
        source_account_id == acc[s].account_id
        source_balance == acc[s].balance
        target_account_id == acc[t].account_id
        target_balance == acc[t].balance
        source_idx == IndexOfAccount(acc, source_account_id)
        target_idx == IndexOfAccount(acc, target_account_id)
        new_source_balance == FSub(source_balance, amount)
        new_target_balance == FAdd(target_balance, amount)
        acc2 == update_balances(acc, source_idx, target_idx,
                                new_source_balance, new_target_balance)
        transaction_id == generate_transaction_id(txs)
        next_transaction_id == Format04d(ParseInt(transaction_id) + 1)
        txs2 == concat(txs, << source_txn(transaction_id, source_account_id, now,
                                          amount, new_source_balance),
                               target_txn(next_transaction_id, target_account_id, now,
                                          amount, new_target_balance) >>)
        saved == save_data(acc2, txs2, af, tf, save_outcome)
    IN IF user_lookup_raises(usrs, source_user_id) \/ user_lookup_raises(usrs, target_user_id)
       THEN Outcome(TRUE, Failure("", ""), acc2, txs, af, tf, checks, "none")
       ELSE IF generate_transaction_id_raises(txs)
       THEN Outcome(TRUE, Failure("", ""), acc2, txs, af, tf, checks, "none")
       ELSE IF ~saved.ok
       THEN Outcome(FALSE, Failure("SAVE_FAILURE", "Failed to save transaction. Transfer aborted."),
                    restore(accounts_backup, acc2), restore(transactions_backup, txs2),
                    saved.accounts_file, saved.transactions_file, checks, save_outcome)
       ELSE Outcome(FALSE,
                    [Envelope("success", "", "Successfully transferred")
                       EXCEPT !.source_balance = new_source_balance,
                              !.target_balance = new_target_balance,
                              !.transaction_id = transaction_id,
                              !.timestamp = now],
                    acc2, txs2, saved.accounts_file, saved.transactions_file,
                    checks, save_outcome)

\* a return statement of the validations: nothing was changed
Rejected(code, message, checks, acc, txs, af, tf) ==
    [passed |-> FALSE, checks |-> checks,
     outcome |-> Outcome(FALSE, Failure(code, message), acc, txs, af, tf, checks, "none")]

\* Lines 265-285: the funds check and the currency check.  passed is TRUE
\* when control reaches line 287.
validate_accounts(acc, txs, usrs, af, tf, source_user_id, target_user_id, amount, source_account_type, target_account_type, checked) ==
    LET funds == check_sufficient_funds(usrs, acc, source_user_id, source_account_type, amount)
        currency == validate_currency(usrs, acc, source_user_id, target_user_id,
                                      source_account_type, target_account_type)
    IN IF get_account_by_type_raises(usrs, acc, source_user_id)
       THEN [passed |-> FALSE, checks |-> checked \o << "funds" >>,
             outcome |-> Outcome(TRUE, Failure("", ""), acc, txs, af, tf,
                                 checked \o << "funds" >>, "none")]
       ELSE IF ~funds.ok
       THEN [passed |-> FALSE, checks |-> checked \o << "funds" >>,
             outcome |-> Outcome(FALSE,
                            [Failure("INSUFFICIENT_FUNDS", funds.message)
                               EXCEPT !.suggestion = funds.suggestion],
                            acc, txs, af, tf, checked \o << "funds" >>, "none")]
       ELSE IF ~currency.ok
       THEN Rejected("CURRENCY_MISMATCH", currency.message,
                     checked \o << "funds", "currency" >>, acc, txs, af, tf)
       ELSE [passed |-> TRUE, checks |-> checked \o << "funds", "currency" >>,
             outcome |-> Outcome(FALSE, Failure("", ""), acc, txs, af, tf, << >>, "none")]

\* validate with the amount checked before the users
validate_amount_first(acc, txs, usrs, af, tf, source_user_id, target_user_id, amount, source_account_type, target_account_type) ==
    IF ~validate_amount(amount).ok
    THEN Rejected("INVALID_AMOUNT", validate_amount(amount).message,
                  << "amount" >>, acc, txs, af, tf)
    ELSE IF ~validate_user(usrs, source_user_id)
    THEN Rejected("USER_NOT_FOUND", "Source user not found",
                  << "amount", "source_user" >>, acc, txs, af, tf)
    ELSE IF ~validate_user(usrs, target_user_id)
    THEN Rejected("USER_NOT_FOUND", "Target user not found",
                  << "amount", "source_user", "target_user" >>, acc, txs, af, tf)
    ELSE validate_accounts(acc, txs, usrs, af, tf, source_user_id, target_user_id,
                           amount, source_account_type, target_account_type,
                           << "amount", "source_user", "target_user" >>)

\* Lines 241-285: the validations, in the order of the code; each returns at
\* once when it fails.
validate(acc, txs, usrs, af, tf, source_user_id, target_user_id, amount, source_account_type, target_account_type) ==
    IF ~validate_user(usrs, source_user_id)
    THEN Rejected("USER_NOT_FOUND", "Source user not found",
                  << "source_user" >>, acc, txs, af, tf)
    ELSE IF ~validate_user(usrs, target_user_id)
    THEN Rejected("USER_NOT_FOUND", "Target user not found",
                  << "source_user", "target_user" >>, acc, txs, af, tf)
    ELSE IF ~validate_amount(amount).ok
    THEN Rejected("INVALID_AMOUNT", validate_amount(amount).message,
                  << "source_user", "target_user", "amount" >>, acc, txs, af, tf)
    ELSE validate_accounts(acc, txs, usrs, af, tf, source_user_id, target_user_id,
                           amount, source_account_type, target_account_type,
                           << "source_user", "target_user", "amount" >>)

\* finish without the except clause: the exception reaches the caller
finish_without_except(o, accounts_backup, transactions_backup, source_user_id, target_user_id, amount, source_account_type, target_account_type) ==
    /\ accounts' = o.accounts
    /\ transactions' = o.transactions
    /\ accounts_file' = o.accounts_file
    /\ transactions_file' = o.transactions_file
    /\ result' = IF o.raised THEN Envelope("exception", "", "") ELSE o.env
    /\ call' = [method |-> "transfer_money",
                source_user_id |-> source_user_id, target_user_id |-> target_user_id,
                amount |-> amount, source_account_type |-> source_account_type,
                target_account_type |-> target_account_type,
                checks |-> o.checks, save |-> o.save]
    /\ UNCHANGED <<users, peer, session>>

\* Lines 383-392 and the return: an exception restores the copies taken on
\* entry and yields SYSTEM_ERROR; otherwise the envelope of the try body is
\* returned with the tables as the body left them.
finish(o, accounts_backup, transactions_backup, source_user_id, target_user_id, amount, source_account_type, target_account_type) ==
    /\ accounts' = IF o.raised THEN restore(accounts_backup, o.accounts) ELSE o.accounts
    /\ transactions' = IF o.raised THEN restore(transactions_backup, o.transactions)
                       ELSE o.transactions
    /\ accounts_file' = o.accounts_file
    /\ transactions_file' = o.transactions_file
    /\ result' = IF o.raised
                 THEN Failure("SYSTEM_ERROR", "An unexpected error occurred")
                 ELSE o.env
    /\ call' = [method |-> "transfer_money",
                source_user_id |-> source_user_id, target_user_id |-> target_user_id,
                amount |-> amount, source_account_type |-> source_account_type,
                target_account_type |-> target_account_type,
                checks |-> o.checks, save |-> o.save]
    /\ UNCHANGED <<users, peer, session>>

Idle == result.status = "none"

\* MoneyTransfer.transfer_money.  The wall clock (line 321) and the file
\* system (line 361) are read only by a call that passed the validations.
transfer_money(source_user_id, target_user_id, amount, source_account_type, target_account_type) ==
    /\ Idle
    /\ Len(transactions) < 2 * MaxPairs
    /\ LET accounts_backup == accounts
           transactions_backup == transactions
       IN \E v \in { validate(accounts, transactions, users, accounts_file,
                              transactions_file, source_user_id, target_user_id, amount,
                              source_account_type, target_account_type) } :
            IF v.passed
            THEN \E now \in Times, save_outcome \in SaveOutcomes :
                   \E o \in { execute(accounts, transactions, users, accounts_file,
                                      transactions_file, accounts_backup,
                                      transactions_backup, now, source_user_id,
                                      target_user_id, amount, source_account_type,
                                      target_account_type, save_outcome, v.checks) } :
                     finish(o, accounts_backup, transactions_backup, source_user_id,
                            target_user_id, amount, source_account_type, target_account_type)
            ELSE finish(v.outcome, accounts_backup, transactions_backup, source_user_id,
                        target_user_id, amount, source_account_type, target_account_type)

TransferMoney ==
    \E source_user_id \in UserIds, target_user_id \in UserIds, amount \in Amounts,
       source_account_type \in AccountTypes, target_account_type \in AccountTypes :
        transfer_money(source_user_id, target_user_id, amount,
                       source_account_type, target_account_type)

NoCall ==
    [method |-> "", source_user_id |-> "", target_user_id |-> "", amount |-> 0,
     source_account_type |-> "", target_account_type |-> "",
     checks |-> << >>, save |-> "none"]

\* no second instance was constructed
NoPeer ==
    [accounts |-> EmptyFrame, transactions |-> EmptyFrame, users |-> EmptyFrame,
     call |-> NoCall, result |-> Envelope("none", "", "")]

\* no chat session was opened
NoSession ==
    [current_user_id |-> "", processed_messages |-> [keys |-> {}, others |-> 0],
     last |-> [channel |-> "", text |-> << >>, intent |-> "", outcome |-> "",
               added |-> << >>, response |-> ""]]

\* The caller renders the envelope (st.success / st.error); the next request
\* is made after that.
show_result ==
    /\ ~Idle
    /\ result' = Envelope("none", "", "")
    /\ call' = NoCall
    /\ UNCHANGED <<accounts, transactions, users, accounts_file, transactions_file, peer, session>>

----------------------------------------------------------------------------
(* History Query *)

\* the account ids of the user, of one type when account_type is given
\* ("" stands for None)
history_account_ids(acc, user_id, account_type) ==
    { acc[k].account_id :
        k \in { j \in 1 .. Len(acc) :
                  /\ acc[j].owner_id = user_id
                  /\ account_type = "" \/ acc[j].account_type = account_type } }

\* pd.api.types.is_datetime64_any_dtype(self.transactions['date']): the
\* column holds Timestamps only; rows appended by transfer_money hold strings
is_datetime64_any_dtype(txs) ==
    \A k \in 1 .. Len(txs) : txs[k].date.kind \in {"naive", "aware", "NaT"}

\* the column holds Timestamps with a timezone: comparing it with the naive
\* cutoff raises TypeError, and so does converting it together with strings
\* that carry no UTC offset
tz_aware(txs) == \E k \in 1 .. Len(txs) : txs[k].date.kind = "aware"

\* isin(accounts) & (date >= cutoff_date) & (category == 'Transfers'), on the
\* converted dates; NaT >= cutoff_date is False
rows_in_window(txs, ids, cutoff_date) ==
    { k \in 1 .. Len(txs) :
        /\ txs[k].account_id \in ids
        /\ to_datetime(txs[k].date).kind = "naive"
        /\ to_datetime(txs[k].date).t >= cutoff_date
        /\ txs[k].category = "Transfers" }

\* isin(accounts) & (category == 'Transfers')
rows_of_accounts(txs, ids) ==
    { k \in 1 .. Len(txs) : txs[k].account_id \in ids /\ txs[k].category = "Transfers" }

\* sort_values('date') on an object column raises TypeError when it has to
\* compare a Timestamp with a str
sort_values_raises(txs, rows) ==
    /\ \E k \in rows : txs[k].date.kind = "str"
    /\ \E k \in rows : txs[k].date.kind \in {"naive", "aware"}

\* the rows that lines 453-492 leave in transfers
history_rows(txs, ids, cutoff_date) ==
    IF ~is_datetime64_any_dtype(txs)
    THEN IF ~tz_aware(txs) THEN rows_in_window(txs, ids, cutoff_date)
         ELSE IF ~sort_values_raises(txs, rows_of_accounts(txs, ids))
         THEN rows_of_accounts(txs, ids)
         ELSE {}
    ELSE IF ~tz_aware(txs) THEN rows_in_window(txs, ids, cutoff_date)
         ELSE rows_of_accounts(txs, ids)

\* the instant by which sort_values orders a row; rows without a date come
\* last
SortKey(txs, k) ==
    IF to_datetime(txs[k].date).kind = "NaT" THEN -1000000 ELSE to_datetime(txs[k].date).t

RECURSIVE sort_values_descending(_, _)
\* sort_values('date', ascending=False): every order of the rows in which
\* the dates do not increase; the order of rows of one date is not fixed
sort_values_descending(txs, rows) ==
    IF rows = {} THEN { << >> }
    ELSE UNION { { << k >> \o rest : rest \in sort_values_descending(txs, rows \ {k}) } :
                   k \in { j \in rows : \A i \in rows : SortKey(txs, j) >= SortKey(txs, i) } }

\* one entry of 'transfers'
formatted_transfer(txn) ==
    [transaction_id |-> txn.transaction_id, account_id |-> txn.account_id,
     date |-> to_datetime(txn.date).t, amount |-> txn.amount,
     balance_after |-> txn.balance_after]

HistoryEnvelope(status, code, message, transfers) ==
    [status |-> status, code |-> code, message |-> message, transfers |-> transfers]

\* the rows that the formatting loop appends: NaT has strftime and raises
\* in it, and the loop continues with the next row
formatted_rows(txs, order) ==
    LET formats(k) == txs[k].date.kind # "NaT"
    IN SelectSeq(order, formats)

\* get_transfer_history: the set of the envelopes that the call can return
get_transfer_history(usrs, acc, txs, now, user_id, days, account_type) ==
    LET ids == history_account_ids(acc, user_id, account_type)
        cutoff_date == now - days
        rows == history_rows(txs, ids, cutoff_date)
    IN IF ~validate_user(usrs, user_id)
       THEN { HistoryEnvelope("error", "USER_NOT_FOUND", "User not found", << >>) }
       ELSE IF acc = EmptyFrame
       THEN { HistoryEnvelope("error", "DATA_ERROR",
                              "Unable to retrieve account information", << >>) }
       ELSE IF ids = {}
       THEN { HistoryEnvelope("error", "NO_ACCOUNTS", "No accounts found", << >>) }
       ELSE IF txs = EmptyFrame \/ rows = {}
       THEN { HistoryEnvelope("success", "", "No transfers found", << >>) }
       ELSE { HistoryEnvelope("success", "", "Found transfers",
                              [i \in 1 .. Len(formatted_rows(txs, order)) |->
                                  formatted_transfer(txs[formatted_rows(txs, order)[i]])]) :
                order \in sort_values_descending(txs, rows) }

----------------------------------------------------------------------------
(* Read-only operations *)

\* get_transfer_history that converts the date column of self.transactions
\* itself
transactions_converted_in_place(txs) == convert_dates(txs)

\* lines 458 and 476: the dates are converted and the rows filtered on
\* transactions_copy; self.transactions is what it was
transactions_after_history(txs) == txs

\* What a read-only method hands to its caller: the value returned, or the
\* fact that it raised
Returned(value) == [status |-> "returned", value |-> value]
Raised == [status |-> "raised", value |-> << >>]

\* get_accounts_with_sufficient_funds: the account ids of the summaries, in
\* table order
get_accounts_with_sufficient_funds(usrs, acc, user_id, amount) ==
    LET has_funds(a) == a.owner_id = user_id /\ FGe(a.balance, amount)
        with_funds == SelectSeq(acc, has_funds)
    IN IF ~validate_user(usrs, user_id) THEN Returned(<< >>)
       ELSE IF ColumnsMissing(acc) THEN Raised
       ELSE IF \A k \in 1 .. Len(acc) : acc[k].owner_id # user_id THEN Returned(<< >>)
       ELSE IF amount = NotNumber THEN Raised
       ELSE Returned([k \in 1 .. Len(with_funds) |-> with_funds[k].account_id])

\* get_user_select_options: the 'value' of every option
get_user_select_options(usrs) ==
    IF usrs = EmptyFrame
    THEN << "USR001", "USR002", "USR003", "USR004", "USR005" >>
    ELSE [k \in 1 .. Len(usrs) |-> usrs[k].user_id]

\* get_account_select_options: the 'value' of every option
get_account_select_options(usrs, acc, user_id) ==
    LET owned(a) == a.owner_id = user_id
        own == SelectSeq(acc, owned)
    IN IF acc = EmptyFrame THEN << >>
       ELSE IF ~validate_user(usrs, user_id) THEN << >>
       ELSE [k \in 1 .. Len(own) |-> own[k].account_type]

----------------------------------------------------------------------------
(* Specification: one MoneyTransfer instance, constructed from the files,   *)
(* on which transfer_money is called any number of times.                   *)

Init ==
    \E tf \in TransactionsCsvs, outcome \in LoadOutcomes :
        LET loaded == load_data(AccountsCsv, tf, UsersCsv, outcome)
        IN /\ accounts_file = AccountsCsv
           /\ transactions_file = tf
           /\ accounts = loaded.accounts
           /\ transactions = loaded.transactions
           /\ users = loaded.users
           /\ call = NoCall
           /\ result = Envelope("none", "", "")
           /\ peer = NoPeer
           /\ session = NoSession

Next == TransferMoney \/ show_result

Spec == Init /\ [][Next]_vars

----------------------------------------------------------------------------
(* Specification of the id allocation: the instance is constructed from a   *)
(* transaction history of zero, one or two rows with distinct ids of the    *)
(* form TX<digits>, in any order, and transfers are made between the        *)
(* savings accounts of the two users.                                       *)

\* "TX0001", "TX0003", "TX7", "TX9998"
HistoryIds == { <<0, 0, 0, 1>>, <<0, 0, 0, 3>>, <<7>>, <<9, 9, 9, 8>> }

HistoryRow(id) == Txn(id, "ACC001", Timestamp(0), "Groceries", -1000, 1000000)

HistoryTables ==
    { << >> }
    \cup { << HistoryRow(i) >> : i \in HistoryIds }
    \cup { << HistoryRow(p[1]), HistoryRow(p[2]) >> :
             p \in { q \in HistoryIds \X HistoryIds : q[1] # q[2] } }

HistoryCsvs == { to_csv_transactions(t) : t \in HistoryTables }

InitAlloc ==
    \E tf \in HistoryCsvs :
        LET loaded == load_data(AccountsCsv, tf, UsersCsv, "ok")
        IN /\ accounts_file = AccountsCsv
           /\ transactions_file = tf
           /\ accounts = loaded.accounts
           /\ transactions = loaded.transactions
           /\ users = loaded.users
           /\ call = NoCall
           /\ result = Envelope("none", "", "")
           /\ peer = NoPeer
           /\ session = NoSession

\* the form is submitted with 50.00 between REGULAR_SAVINGS accounts
SavingsTransfer ==
    \E source_user_id \in {"USR001", "USR002"}, target_user_id \in {"USR001", "USR002"} :
        transfer_money(source_user_id, target_user_id, 5000,
                       "REGULAR_SAVINGS", "REGULAR_SAVINGS")

NextAlloc == SavingsTransfer \/ show_result

AllocSpec == InitAlloc /\ [][NextAlloc]_vars

----------------------------------------------------------------------------
(* Specification of two overlapping requests: the page and the chat handler *)
(* each construct their own MoneyTransfer (pages/money_transfer.py line 15, *)
(* handlers/chat_handler.py line 44); both instances load the same files    *)
(* and then each calls transfer_money, in any interleaving of whole calls.  *)
(* The history holds 2 * MaxPairs - 2 rows.                                 *)

OverlapTable ==
    [k \in 1 .. 2 * MaxPairs - 2 |->
        Txn(Format04d(k), "ACC001", Timestamp(0), "Groceries", -1000, 1000000)]

OverlapCsv == to_csv_transactions(OverlapTable)

InitOverlap ==
    LET loaded == load_data(AccountsCsv, OverlapCsv, UsersCsv, "ok")
    IN /\ accounts_file = AccountsCsv
       /\ transactions_file = OverlapCsv
       /\ accounts = loaded.accounts
       /\ transactions = loaded.transactions
       /\ users = loaded.users
       /\ call = NoCall
       /\ result = Envelope("none", "", "")
       /\ peer = [accounts |-> loaded.accounts, transactions |-> loaded.transactions,
                  users |-> loaded.users, call |-> NoCall,
                  result |-> Envelope("none", "", "")]
       /\ session = NoSession

\* finish on the second instance
peer_finish(o, accounts_backup, transactions_backup, source_user_id, target_user_id, amount, source_account_type, target_account_type) ==
    /\ peer' = [accounts |-> IF o.raised THEN restore(accounts_backup, o.accounts)
                             ELSE o.accounts,
                transactions |-> IF o.raised
                                 THEN restore(transactions_backup, o.transactions)
                                 ELSE o.transactions,
                users |-> peer.users,
                call |-> [method |-> "transfer_money",
                          source_user_id |-> source_user_id,
                          target_user_id |-> target_user_id,
                          amount |-> amount, source_account_type |-> source_account_type,
                          target_account_type |-> target_account_type,
                          checks |-> o.checks, save |-> o.save],
                result |-> IF o.raised
                           THEN Failure("SYSTEM_ERROR", "An unexpected error occurred")
                           ELSE o.env]
    /\ accounts_file' = o.accounts_file
    /\ transactions_file' = o.transactions_file
    /\ UNCHANGED <<accounts, transactions, users, call, result, session>>

\* transfer_money on the second instance
peer_transfer_money(source_user_id, target_user_id, amount, source_account_type, target_account_type) ==
    /\ peer.result.status = "none"
    /\ Len(peer.transactions) < 2 * MaxPairs
    /\ LET accounts_backup == peer.accounts
           transactions_backup == peer.transactions
       IN \E v \in { validate(peer.accounts, peer.transactions, peer.users, accounts_file,
                              transactions_file, source_user_id, target_user_id, amount,
                              source_account_type, target_account_type) } :
            IF v.passed
            THEN \E now \in Times, save_outcome \in SaveOutcomes :
                   \E o \in { execute(peer.accounts, peer.transactions, peer.users,
                                      accounts_file, transactions_file, accounts_backup,
                                      transactions_backup, now, source_user_id,
                                      target_user_id, amount, source_account_type,
                                      target_account_type, save_outcome, v.checks) } :
                     peer_finish(o, accounts_backup, transactions_backup, source_user_id,
                                 target_user_id, amount, source_account_type,
                                 target_account_type)
            ELSE peer_finish(v.outcome, accounts_backup, transactions_backup,
                             source_user_id, target_user_id, amount,
                             source_account_type, target_account_type)

\* the page of USR001 is submitted with 50.00 from savings to the savings
\* account of USR002
PageTransfer ==
    transfer_money("USR001", "USR002", 5000, "REGULAR_SAVINGS", "REGULAR_SAVINGS")

\* the page of USR002, served by the second instance, is submitted with 20.00
\* from savings to the savings account of USR001
PeerPageTransfer ==
    peer_transfer_money("USR002", "USR001", 2000, "REGULAR_SAVINGS", "REGULAR_SAVINGS")

\* the chat handler of USR002 moves 20.00 from savings to savings
ChatTransfer ==
    peer_transfer_money("USR002", "USR002", 2000, "REGULAR_SAVINGS", "REGULAR_SAVINGS")

\* the chat handler renders the envelope
peer_show_result ==
    /\ peer.result.status # "none"
    /\ peer' = [peer EXCEPT !.result = Envelope("none", "", ""), !.call = NoCall]
    /\ UNCHANGED <<accounts, transactions, users, accounts_file, transactions_file,
                   call, result, session>>

NextOverlap ==
    PageTransfer \/ PeerPageTransfer \/ ChatTransfer \/ show_result \/ peer_show_result

OverlapSpec == InitOverlap /\ [][NextOverlap]_vars

----------------------------------------------------------------------------
(* Specification of the history query: the instance is constructed from a   *)
(* history of transfers of several ages, accounts and categories, with      *)
(* dates without or with a UTC offset; the page makes transfers and asks    *)
(* for the transfer history.                                                *)

Days == {7, 30}

\* dates without UTC offset: 40, 7 and 3 days before day 0
DatedCsv ==
    << Txn(<<0, 0, 0, 1>>, "ACC001", strftime(-40), "Transfers", float_to_text(-1000), float_to_text(1000000)),
       Txn(<<0, 0, 0, 2>>, "ACC002", strftime(-7), "Transfers", float_to_text(500), float_to_text(2000)),
       Txn(<<0, 0, 0, 3>>, "ACC003", strftime(-3), "Transfers", float_to_text(2000), float_to_text(5000)),
       Txn(<<0, 0, 0, 4>>, "ACC001", strftime(-3), "Groceries", float_to_text(-1000), float_to_text(1000000)) >>

\* a longer history: a transfer on the first day of the 30-day window, two
\* transfers of one date, and a transfer whose date is not a date
LongDatedCsv ==
    DatedCsv \o
    << Txn(<<0, 0, 0, 5>>, "ACC001", strftime(-30), "Transfers", float_to_text(-700), float_to_text(1000000)),
       Txn(<<0, 0, 0, 6>>, "ACC004", strftime(-7), "Transfers", float_to_text(700), float_to_text(70000)),
       Txn(<<0, 0, 0, 7>>, "ACC001", BadDateText, "Transfers", float_to_text(-100), float_to_text(1000000)) >>

\* the dates of DatedCsv written with a UTC offset
DatedTzCsv ==
    [k \in 1 .. Len(DatedCsv) |-> [DatedCsv[k] EXCEPT !.date = DateTextTz(@.t)]]

DatedCsvs == { DatedCsv, LongDatedCsv, DatedTzCsv }

InitHistory ==
    \E tf \in DatedCsvs, outcome \in LoadOutcomes :
        LET loaded == load_data(AccountsCsv, tf, UsersCsv, outcome)
        IN /\ accounts_file = AccountsCsv
           /\ transactions_file = tf
           /\ accounts = loaded.accounts
           /\ transactions = loaded.transactions
           /\ users = loaded.users
           /\ call = NoCall
           /\ result = Envelope("none", "", "")
           /\ peer = NoPeer
           /\ session = NoSession

\* the page asks for the transfer history of a user
GetTransferHistory ==
    \E user_id \in UserIds, days \in Days, account_type \in {""} \cup AccountTypes,
       now \in Times :
        /\ Idle
        /\ \E env \in get_transfer_history(users, accounts, transactions, now,
                                           user_id, days, account_type) :
               result' = env
        /\ call' = [method |-> "get_transfer_history", user_id |-> user_id,
                    days |-> days, account_type |-> account_type, now |-> now]
        /\ transactions' = transactions_after_history(transactions)
        /\ UNCHANGED <<accounts, users, accounts_file, transactions_file, peer, session>>

NextHistory == PageTransfer \/ GetTransferHistory \/ show_result

HistorySpec == InitHistory /\ [][NextHistory]_vars

----------------------------------------------------------------------------
(* Specification of the read-only surface: on an instance constructed from  *)
(* the files the callers make transfers and call the validators, the id     *)
(* allocator, the history query and the option helpers, in any order.       *)

\* a read-only method was called with the arguments args and returned r
Query(method, args, r) ==
    /\ Idle
    /\ result' = r
    /\ call' = [method |-> method, args |-> args]
    /\ UNCHANGED <<accounts, transactions, users, accounts_file, transactions_file, peer, session>>

ValidateUser ==
    \E user_id \in UserIds :
        Query("validate_user", << user_id >>, Returned(validate_user(users, user_id)))

GetAccountByType ==
    \E user_id \in UserIds, account_type \in AccountTypes :
        Query("get_account_by_type", << user_id, account_type >>,
              IF get_account_by_type_raises(users, accounts, user_id) THEN Raised
              ELSE Returned(get_account_by_type(users, accounts, user_id, account_type)))

ValidateAmount ==
    \E amount \in Amounts :
        Query("validate_amount", << amount >>, Returned(validate_amount(amount)))

CheckSufficientFunds ==
    \E user_id \in UserIds, account_type \in AccountTypes, amount \in Amounts :
        Query("check_sufficient_funds", << user_id, account_type, amount >>,
              IF \/ get_account_by_type_raises(users, accounts, user_id)
                 \/ /\ amount = NotNumber
                    /\ get_account_by_type(users, accounts, user_id, account_type) # 0
              THEN Raised
              ELSE Returned(check_sufficient_funds(users, accounts, user_id,
                                                   account_type, amount)))

ValidateCurrency ==
    \E source_user_id \in UserIds, target_user_id \in UserIds,
       source_account_type \in AccountTypes, target_account_type \in AccountTypes :
        Query("validate_currency",
              << source_user_id, target_user_id, source_account_type, target_account_type >>,
              IF \/ get_account_by_type_raises(users, accounts, source_user_id)
                 \/ get_account_by_type_raises(users, accounts, target_user_id)
              THEN Raised
              ELSE Returned(validate_currency(users, accounts, source_user_id,
                                              target_user_id, source_account_type,
                                              target_account_type)))

GenerateTransactionId ==
    Query("generate_transaction_id", << >>,
          IF generate_transaction_id_raises(transactions) THEN Raised
          ELSE Returned(generate_transaction_id(transactions)))

GetAccountsWithSufficientFunds ==
    \E user_id \in UserIds, amount \in Amounts :
        Query("get_accounts_with_sufficient_funds", << user_id, amount >>,
              get_accounts_with_sufficient_funds(users, accounts, user_id, amount))

GetUserSelectOptions ==
    Query("get_user_select_options", << >>, Returned(get_user_select_options(users)))

GetAccountSelectOptions ==
    \E user_id \in UserIds :
        Query("get_account_select_options", << user_id >>,
              Returned(get_account_select_options(users, accounts, user_id)))

InitQuery ==
    \E tf \in TransactionsCsvs \cup {DatedCsv}, outcome \in LoadOutcomes :
        LET loaded == load_data(AccountsCsv, tf, UsersCsv, outcome)
        IN /\ accounts_file = AccountsCsv
           /\ transactions_file = tf
           /\ accounts = loaded.accounts
           /\ transactions = loaded.transactions
           /\ users = loaded.users
           /\ call = NoCall
           /\ result = Envelope("none", "", "")
           /\ peer = NoPeer
           /\ session = NoSession

NextQuery ==
    \/ PageTransfer
    \/ ValidateUser
    \/ GetAccountByType
    \/ ValidateAmount
    \/ CheckSufficientFunds
    \/ ValidateCurrency
    \/ GenerateTransactionId
    \/ GetTransferHistory
    \/ GetAccountsWithSufficientFunds
    \/ GetUserSelectOptions
    \/ GetAccountSelectOptions
    \/ show_result

QuerySpec == InitQuery /\ [][NextQuery]_vars

----------------------------------------------------------------------------
(* Conversational layer *)
(* A message text is the sequence of its words.  An amount is a word that  *)
(* starts with digits or with "$" and digits.  The patterns of the intent  *)
(* analyzer are matched on the words.                                      *)

\* the words that the pattern \$?(\d+(?:\.\d+)?) matches, with the float
\* read from the digits
AmountWords == ("$50" :> 5000) @@ ("$20" :> 2000)

IsWord(w) == w \notin DOMAIN AmountWords

\* the number of the Money_Transfer patterns that re.search finds
Money_Transfer_patterns(query) ==
    LET Has(w) == \E i \in 1 .. Len(query) : query[i] = w
        Adjacent(a, b) ==
            \E i \in 1 .. Len(query) - 1 : query[i] = a /\ query[i + 1] = b
        FollowedByDollar(a) ==
            \E i \in 1 .. Len(query) - 1 :
                query[i] = a /\ query[i + 1] \in {"$50", "$20"}
        \* r"from my .* to my"
        from_my_to_my ==
            \E i \in 1 .. Len(query), j \in 1 .. Len(query) :
                /\ j >= i + 2 /\ j + 1 <= Len(query)
                /\ query[i] = "from" /\ query[i + 1] = "my"
                /\ query[j] = "to" /\ query[j + 1] = "my"
    IN Cardinality({ p \in 1 .. 10 :
        \/ p = 1 /\ Has("transfer")
        \/ p = 2 /\ Adjacent("move", "money")
        \/ p = 3 /\ Adjacent("send", "money")
        \/ p = 4 /\ Adjacent("transfer", "funds")
        \/ p = 5 /\ Adjacent("move", "funds")
        \/ p = 6 /\ FollowedByDollar("transfer")
        \/ p = 7 /\ FollowedByDollar("move")
        \/ p = 8 /\ FollowedByDollar("send")
        \/ p = 9 /\ from_my_to_my
        \/ p = 10 /\ Adjacent("between", "my") /\ Has("accounts") })

\* IntentAnalyzer.analyze, primary_intent: the intent with the most matched
\* patterns.  The words of the texts of the model match no pattern of the
\* other eight intents.
primary_intent(query) ==
    IF Money_Transfer_patterns(query) > 0 THEN "Money_Transfer" ELSE "General_Query"

\* the first key of account_types that occurs in the captured words
\* ("" when none does): "savings" is looked up before "travel"
account_type_of(group) ==
    IF "savings" \in group THEN "REGULAR_SAVINGS"
    ELSE IF "checking" \in group THEN "CHECKING"
    ELSE IF "travel" \in group THEN "TRAVEL_SAVINGS"
    ELSE ""

\* the type that source_match or target_match puts in params ("" for none).
\* a\s+b\s+([a-zA-Z\-]+(?:\s+[a-zA-Z\-]+)?)\s+ matches where a word and
\* white space follow "a b"; group(1) of the leftmost match holds two words
\* when a second word and white space follow, one word otherwise.
matched_account_type(query, a, b) ==
    LET match_positions ==
            { i \in 1 .. Len(query) :
                /\ i + 3 <= Len(query)
                /\ query[i] = a /\ query[i + 1] = b /\ IsWord(query[i + 2]) }
        i == CHOOSE k \in match_positions : \A m \in match_positions : k <= m
        captured_group ==
            IF i + 4 <= Len(query) /\ IsWord(query[i + 3])
            THEN {query[i + 2], query[i + 3]}
            ELSE {query[i + 2]}
    IN IF match_positions = {} THEN "" ELSE account_type_of(captured_group)

\* amount_match: the first amount of the text (NotNumber stands for None)
matched_amount(query) ==
    IF \A i \in 1 .. Len(query) : IsWord(query[i]) THEN NotNumber
    ELSE AmountWords[query[CHOOSE i \in 1 .. Len(query) :
                              /\ ~IsWord(query[i])
                              /\ \A m \in 1 .. i - 1 : IsWord(query[m])]]

\* IntentAnalyzer._extract_parameters: params.get(...) of the three transfer
\* parameters; "" and NotNumber stand for None
extract_parameters(query, intent_name) ==
    IF intent_name # "Money_Transfer"
    THEN [source_account_type |-> "", target_account_type |-> "", amount |-> NotNumber]
    ELSE [source_account_type |->
              IF matched_account_type(query, "from", "my") = "" THEN "REGULAR_SAVINGS"
              ELSE matched_account_type(query, "from", "my"),
          target_account_type |->
              IF matched_account_type(query, "to", "my") = "" THEN "TRAVEL_SAVINGS"
              ELSE matched_account_type(query, "to", "my"),
          amount |-> matched_amount(query)]

\* IntentAnalyzer.analyze
analyze(query) ==
    [primary_intent |-> primary_intent(query),
     parameters |-> extract_parameters(query, primary_intent(query))]

\* intent.replace("_", " ") on the labels of the classifier
replace_underscores(intent) ==
    IF intent = "Money_Transfer" THEN "Money Transfer" ELSE intent

\* the labels that the embedding classifier can return for a text
Intents == {"Money_Transfer", "default"}

TransferPrompt == "I can help you transfer money between accounts. Please provide the source account, destination account, and amount."

\* ChatBot.get_response: the Money Transfer intent is answered by
\* MoneyTransferHandler.handle, every other intent by the language model
get_response(intent) ==
    IF replace_underscores(intent) = "Money Transfer" THEN TransferPrompt
    ELSE "answer of the language model"

\* st.session_state.processed_messages is the set of keys 'text:user_id'.
\* The keys of the texts of the model are held in keys; the keys of all
\* other texts are interchangeable and only counted, in others.
Size(processed_messages) ==
    Cardinality(processed_messages.keys) + processed_messages.others

message_hash(text, user_id) == << text, user_id >>

\* a text that no pattern matches; it stands for every such text, each with
\* a key of its own
OtherText == << "hello" >>

\* message_hash in st.session_state.processed_messages; known tells whether
\* the wording of a text that stands for OtherText was sent before and kept
in_processed_messages(processed_messages, text, user_id, known) ==
    IF text = OtherText THEN known /\ processed_messages.others > 0
    ELSE message_hash(text, user_id) \in processed_messages.keys

\* processed_messages.add(message_hash)
add_message(processed_messages, text, user_id) ==
    IF text = OtherText
    THEN [processed_messages EXCEPT !.others = @ + 1]
    ELSE [processed_messages EXCEPT !.keys = @ \cup {message_hash(text, user_id)}]

\* len(processed_messages) > 20
SizeLimit == 20

\* list(processed_messages)[-10:]
KeptSize == 10

\* the set is never cut
limit_size_keeps_all(processed_messages) == { processed_messages }

\* lines 236-238: a set of more than 20 keys is replaced by 10 of its keys;
\* the order of list(set) is not fixed, so any 10 keys can be the ones kept
limit_size(processed_messages) ==
    IF Size(processed_messages) > SizeLimit
    THEN { [keys |-> kept, others |-> KeptSize - Cardinality(kept)] :
             kept \in { k \in SUBSET processed_messages.keys :
                          /\ Cardinality(k) <= KeptSize
                          /\ KeptSize - Cardinality(k) <= processed_messages.others } }
    ELSE { processed_messages }

----------------------------------------------------------------------------
(* Specification of the conversational layer: in the chat session of a     *)
(* user, typed and spoken messages arrive in any order and the chat        *)
(* history is cleared at any time.  A spoken transfer command constructs   *)
(* a MoneyTransfer from the files and calls transfer_money on it; the      *)
(* tables of that instance are the ones shown in accounts, transactions    *)
(* and users.  The history holds 2 * MaxPairs - 2 rows.                    *)

\* accounts.csv with a travel savings account of USR001
ChatAccountsCsv ==
    to_csv_accounts(AccountsTable \o
                    << Acct("ACC005", "USR001", "TRAVEL_SAVINGS", 3000, "USD") >>)

SameAccountText ==
    << "transfer", "$20", "from", "my", "savings", "to", "my", "savings", "account" >>

TravelText == << "send", "$50", "to", "my", "travel", "account" >>

NoAmountText == << "transfer", "money", "to", "my", "travel", "account" >>

\* the transfer commands that the user types or speaks
CommandTexts == { SameAccountText, TravelText, NoAmountText }

\* a transfer command and any number of other texts
SessionTexts == { TravelText, OtherText }

Transferred == "I've successfully transferred"

\* the run of a handler, as st.session_state and the chat history show it
Ran(channel, text, intent, outcome, added, response) ==
    [channel |-> channel, text |-> text, intent |-> intent, outcome |-> outcome,
     added |-> added, response |-> response]

\* a run that returns before a response is generated
returned_early(channel, text, outcome) ==
    /\ session' = [session EXCEPT !.last = Ran(channel, text, "", outcome, << >>, "")]
    /\ call' = NoCall
    /\ result' = Envelope("none", "", "")
    /\ UNCHANGED <<accounts, transactions, users, accounts_file, transactions_file, peer>>

\* add_user_message, the response, add_ai_message
responded(channel, processed_messages, text, intent, response) ==
    session' = [session EXCEPT
                  !.processed_messages = processed_messages,
                  !.last = Ran(channel, text, intent, "handled",
                               << [type |-> "human", content |-> text],
                                  [type |-> "ai", content |-> response] >>,
                               response)]

\* a response that is generated without a MoneyTransfer
answered(channel, processed_messages, text, intent, response) ==
    /\ responded(channel, processed_messages, text, intent, response)
    /\ call' = NoCall
    /\ result' = Envelope("none", "", "")
    /\ UNCHANGED <<accounts, transactions, users, accounts_file, transactions_file, peer>>

\* MoneyTransfer() and transfer_money on the new instance, as the chat
\* handler (lines 45-55) and the transfer page (lines 15 and 113-120) do.
\* The files are read and written without error.
instance_transfer(source_user_id, target_user_id, amount, source_account_type, target_account_type) ==
    LET loaded == load_data(accounts_file, transactions_file, UsersCsv, "ok")
        accounts_backup == loaded.accounts
        transactions_backup == loaded.transactions
    IN /\ Len(loaded.transactions) < 2 * MaxPairs
       /\ \E v \in { validate(loaded.accounts, loaded.transactions, loaded.users,
                              accounts_file, transactions_file, source_user_id,
                              target_user_id, amount, source_account_type,
                              target_account_type) } :
           \E now \in Times, save_outcome \in {"ok"} :
             \E o \in { IF v.passed
                        THEN execute(loaded.accounts, loaded.transactions, loaded.users,
                                     accounts_file, transactions_file, accounts_backup,
                                     transactions_backup, now, source_user_id,
                                     target_user_id, amount, source_account_type,
                                     target_account_type, save_outcome, v.checks)
                        ELSE v.outcome } :
               /\ accounts' = IF o.raised THEN restore(accounts_backup, o.accounts)
                              ELSE o.accounts
               /\ transactions' = IF o.raised
                                  THEN restore(transactions_backup, o.transactions)
                                  ELSE o.transactions
               /\ users' = loaded.users
               /\ accounts_file' = o.accounts_file
               /\ transactions_file' = o.transactions_file
               /\ result' = IF o.raised
                            THEN Failure("SYSTEM_ERROR", "An unexpected error occurred")
                            ELSE o.env
               /\ call' = [method |-> "transfer_money",
                           source_user_id |-> source_user_id,
                           target_user_id |-> target_user_id, amount |-> amount,
                           source_account_type |-> source_account_type,
                           target_account_type |-> target_account_type,
                           checks |-> o.checks, save |-> o.save]
               /\ UNCHANGED peer

\* lines 45-63 of process_money_transfer_intent: transfer_money with the
\* user on both sides, then the response
voice_transfer(processed_messages, text, intent, user_id, params) ==
    /\ instance_transfer(user_id, user_id, params.amount, params.source_account_type,
                         params.target_account_type)
    /\ responded("voice", processed_messages, text, intent,
                 IF result'.status = "success" THEN Transferred
                 ELSE "I couldn't complete the transfer")

\* process_money_transfer_intent
process_money_transfer_intent(processed_messages, text, intent, user_id) ==
    LET params == analyze(text).parameters
    IN IF params.source_account_type = "" \/ params.target_account_type = ""
       THEN answered("voice", processed_messages, text, intent,
                     "I need to know which accounts to transfer between. Please specify your source and target accounts.")
       ELSE IF params.amount = NotNumber \/ params.amount = 0
       THEN answered("voice", processed_messages, text, intent,
                     "I need to know how much money to transfer. Please specify an amount.")
       ELSE voice_transfer(processed_messages, text, intent, user_id, params)

\* handlers/chat_handler.py, process_text_message.  early: the run comes
\* less than 0.5 s after the last one.
process_text_message(texts) ==
    \E text \in texts, intent \in Intents, known \in BOOLEAN, early \in BOOLEAN :
        IF early THEN returned_early("text", << >>, "too_soon")
        ELSE IF in_processed_messages(session.processed_messages, text,
                                      session.current_user_id, known)
        THEN returned_early("text", text, "skipped")
        ELSE \E processed_messages \in
                  limit_size(add_message(session.processed_messages, text,
                                         session.current_user_id)) :
               answered("text", processed_messages, text, intent, get_response(intent))

\* handlers/voice_handler.py, process_voice_message; transcribe_audio returns
\* the text, or nothing
process_voice_message(texts) ==
    \E text \in texts \cup { << >> }, intent \in Intents, known \in BOOLEAN, early \in BOOLEAN :
        IF early THEN returned_early("voice", << >>, "too_soon")
        ELSE IF text = << >> THEN returned_early("voice", text, "no_transcription")
        ELSE IF in_processed_messages(session.processed_messages, text,
                                      session.current_user_id, known)
        THEN returned_early("voice", text, "skipped")
        ELSE \E processed_messages \in
                  limit_size(add_message(session.processed_messages, text,
                                         session.current_user_id)) :
               IF replace_underscores(intent) = "Money Transfer"
               THEN process_money_transfer_intent(processed_messages, text, intent,
                                                  session.current_user_id)
               ELSE answered("voice", processed_messages, text, intent,
                             get_response(intent))

\* core/session_utils.py, clear_chat_history
clear_chat_history ==
    /\ session' = [session EXCEPT
                     !.processed_messages = [keys |-> {}, others |-> 0],
                     !.last = Ran("", << >>, "", "cleared", << >>, "")]
    /\ call' = NoCall
    /\ result' = Envelope("none", "", "")
    /\ UNCHANGED <<accounts, transactions, users, accounts_file, transactions_file, peer>>

\* the texts typed in the amount field, with the float that
\* float(re.sub(r'[,$]', '', amount_str.strip())) reads; any other text
\* raises ValueError
FormAmounts == ("0" :> 0) @@ ("$50.00" :> 5000)

\* validate_transfer_input
validate_transfer_input(amount_str) ==
    IF amount_str = "" THEN [ok |-> FALSE, amount |-> NotNumber]
    ELSE IF amount_str \notin DOMAIN FormAmounts THEN [ok |-> FALSE, amount |-> NotNumber]
    ELSE IF FormAmounts[amount_str] <= 0 THEN [ok |-> FALSE, amount |-> NotNumber]
    ELSE [ok |-> TRUE, amount |-> FormAmounts[amount_str]]

\* lines 91-92 of the page: the Transfer button is disabled ("" stands for
\* None)
transfer_disabled(source_user_id, target_user_id, source_account_type, target_account_type) ==
    \/ source_account_type = ""
    \/ target_account_type = ""
    \/ source_user_id = target_user_id /\ source_account_type = target_account_type

\* the values offered by a select box of account types
account_choices(options) ==
    IF options = << >> THEN {""} ELSE { options[k] : k \in 1 .. Len(options) }

\* pages/money_transfer.py, render_money_transfer: the selections are made
\* and the Transfer button is pressed
render_money_transfer ==
    LET loaded == load_data(accounts_file, transactions_file, UsersCsv, "ok")
        user_options == get_user_select_options(loaded.users)
        user_choices == { user_options[k] : k \in 1 .. Len(user_options) }
    IN \E source_user_id \in user_choices, target_user_id \in user_choices,
          amount_str \in {"", "abc", "0", "$50.00"} :
         \E source_account_type \in
                account_choices(get_account_select_options(loaded.users, loaded.accounts,
                                                           source_user_id)),
            target_account_type \in
                account_choices(get_account_select_options(loaded.users, loaded.accounts,
                                                           target_user_id)) :
           /\ ~transfer_disabled(source_user_id, target_user_id, source_account_type,
                                 target_account_type)
           /\ IF validate_transfer_input(amount_str).ok
              THEN /\ instance_transfer(source_user_id, target_user_id,
                                        validate_transfer_input(amount_str).amount,
                                        source_account_type, target_account_type)
                   /\ session' = [session EXCEPT
                                    !.last = Ran("form", << >>, "", "submitted", << >>, "")]
              ELSE returned_early("form", << >>, "invalid_amount")

InitChat ==
    \E user_id \in {"USR001", "USR002"} :
        LET loaded == load_data(ChatAccountsCsv, OverlapCsv, UsersCsv, "ok")
        IN /\ accounts_file = ChatAccountsCsv
           /\ transactions_file = OverlapCsv
           /\ accounts = loaded.accounts
           /\ transactions = loaded.transactions
           /\ users = loaded.users
           /\ call = NoCall
           /\ result = Envelope("none", "", "")
           /\ peer = NoPeer
           /\ session = [NoSession EXCEPT !.current_user_id = user_id]

\* the user types a transfer command
TypedCommand == process_text_message(CommandTexts)

\* the user speaks a transfer command
SpokenCommand == process_voice_message(CommandTexts)

NextChat == TypedCommand \/ SpokenCommand \/ clear_chat_history \/ render_money_transfer

ChatSpec == InitChat /\ [][NextChat]_vars

----------------------------------------------------------------------------
(* Specification of a long chat session: the user types and speaks one     *)
(* transfer command and any number of other texts, so that                 *)
(* processed_messages grows beyond its limit.                              *)

TypedMessage == process_text_message(SessionTexts)

SpokenMessage == process_voice_message(SessionTexts)

NextSession == TypedMessage \/ SpokenMessage \/ clear_chat_history

SessionSpec == InitChat /\ [][NextSession]_vars

----------------------------------------------------------------------------
(* Vocabulary of the properties *)

\* this step is a transfer_money call that returned
Called == Idle /\ ~Idle'
Succeeded == Called /\ result'.status = "success"
Failed == Called /\ result'.status = "error"

\* the first row of acc owned by user_id with the given type, 0 when none
FirstMatch(acc, user_id, account_type) ==
    LET S == { k \in 1 .. Len(acc) : /\ acc[k].owner_id = user_id
                                    /\ acc[k].account_type = account_type }
    IN IF S = {} THEN 0 ELSE CHOOSE k \in S : \A j \in S : k <= j

\* user_id is a row of the users table
UserExists(usrs, user_id) == \E k \in 1 .. Len(usrs) : usrs[k].user_id = user_id

IsCents(x) == x # NaN /\ x # NotNumber

ValidationCodes ==
    {"USER_NOT_FOUND", "INVALID_AMOUNT", "INSUFFICIENT_FUNDS", "CURRENCY_MISMATCH"}

ErrorCodes == ValidationCodes \cup {"SAVE_FAILURE", "SYSTEM_ERROR"}

\* the call evaluated the five validations and none of them rejected it
PassedValidation ==
    Called /\ Len(call'.checks) = 5 /\ result'.code \notin ValidationCodes

InMemoryUnchanged == accounts' = accounts /\ transactions' = transactions
FilesUnchanged == accounts_file' = accounts_file /\ transactions_file' = transactions_file

----------------------------------------------------------------------------
(* C1 *)

\* C1: every successful transfer_money call leaves the sum of the balances of
\* all rows of the in-memory accounts table equal to the sum before the call
\* (stated for the amounts that are numbers; a NaN amount breaks it as well).
C1_Conservation ==
    [][(Succeeded /\ IsCents(call'.amount)) =>
        SumBalances(accounts') = SumBalances(accounts)]_vars

(* C2 *)

\* C2: after a successful transfer of X the stored balance of the source
\* account is its old balance minus X, that of the target account its old
\* balance plus X, and the returned balances are the stored ones (stated for
\* the amounts that are numbers).
C2_BalancesMoved ==
    [][(Succeeded /\ IsCents(call'.amount)) =>
        LET s == FirstMatch(accounts, call'.source_user_id, call'.source_account_type)
            t == FirstMatch(accounts, call'.target_user_id, call'.target_account_type)
            X == call'.amount
        IN /\ accounts'[s].balance = FSub(accounts[s].balance, X)
           /\ accounts'[t].balance = FAdd(accounts[t].balance, X)
           /\ result'.source_balance = accounts'[s].balance
           /\ result'.target_balance = accounts'[t].balance]_vars

(* C3 *)

\* C3: a successful transfer of X appends exactly two rows, the first with
\* amount -X on the source account and the second with amount +X on the
\* target account, both with the same date and the category 'Transfers',
\* with ids whose numbers are N and N+1; a call that returns 'error' adds no
\* row.
C3_TwoRowsPerSuccess ==
    [][/\ Succeeded =>
            LET n == Len(transactions)
                s == FirstMatch(accounts, call'.source_user_id, call'.source_account_type)
                t == FirstMatch(accounts, call'.target_user_id, call'.target_account_type)
                debit == transactions'[n + 1]
                credit == transactions'[n + 2]
            IN /\ Len(transactions') = n + 2
               /\ SubSeq(transactions', 1, n) = transactions
               /\ debit.amount = FNeg(call'.amount)
               /\ debit.account_id = accounts[s].account_id
               /\ credit.amount = call'.amount
               /\ credit.account_id = accounts[t].account_id
               /\ debit.date = credit.date
               /\ debit.category = "Transfers" /\ credit.category = "Transfers"
               /\ debit.transaction_id # << >>
               /\ ParseInt(credit.transaction_id) = ParseInt(debit.transaction_id) + 1
       /\ Failed => transactions' = transactions]_vars

\* a transfer between two different accounts succeeded and its two rows are
\* the last rows of the table
C3_Witness ==
    /\ result.status = "success"
    /\ call.source_user_id # call.target_user_id
    /\ IsCents(call.amount)
    /\ Len(transactions) = 4
    /\ transactions[3].amount = 0 - call.amount
    /\ transactions[4].amount = call.amount

(* C4 *)

\* C4: when save_data fails after the balances were changed and the two rows
\* appended, the call returns 'error' with code SAVE_FAILURE and the
\* in-memory accounts and transactions tables equal their contents before
\* the call.
C4_SaveFailureRollsBack ==
    [][(Called /\ call'.save \in {"fail_accounts", "fail_transactions"}) =>
        /\ result'.status = "error"
        /\ result'.code = "SAVE_FAILURE"
        /\ InMemoryUnchanged]_vars

\* save_data failed on a transfer between two accounts with different balances
C4_Witness ==
    /\ result.code = "SAVE_FAILURE"
    /\ call.save = "fail_transactions"
    /\ call.source_user_id = "USR001"
    /\ call.target_user_id = "USR002"
    /\ IsCents(call.amount)

(* C5 *)

\* the try body raises after the validations: in the user-name lookup or in
\* the id allocation, both after the two balances were changed
RaisesAfterUpdate ==
    /\ PassedValidation
    /\ \/ ~UserExists(users, call'.source_user_id)
       \/ ~UserExists(users, call'.target_user_id)
       \/ \E k \in 1 .. Len(transactions) : transactions[k].transaction_id = << >>

\* an exception is raised inside save_data (a write of a CSV file fails)
RaisesInSave == Called /\ call'.save \in {"fail_accounts", "fail_transactions"}

\* C5 as stated: an exception raised anywhere between locating the accounts
\* and persisting, the save included, gives SYSTEM_ERROR and leaves the
\* in-memory tables as they were before the call.
C5_AnyExceptionIsSystemError ==
    [][(RaisesAfterUpdate \/ RaisesInSave) =>
        /\ result'.status = "error"
        /\ result'.code = "SYSTEM_ERROR"
        /\ InMemoryUnchanged]_vars

\* C5 amended: an exception raised between locating the accounts and the row
\* append gives SYSTEM_ERROR, an exception raised while saving is caught by
\* save_data and gives SAVE_FAILURE; in both cases the in-memory tables equal
\* their contents before the call, and SYSTEM_ERROR never comes with changed
\* tables.
C5_ExceptionRollsBack ==
    [][/\ RaisesAfterUpdate =>
            /\ result'.status = "error"
            /\ result'.code = "SYSTEM_ERROR"
            /\ InMemoryUnchanged
       /\ RaisesInSave =>
            /\ result'.status = "error"
            /\ result'.code = "SAVE_FAILURE"
            /\ InMemoryUnchanged
       /\ (Called /\ result'.code = "SYSTEM_ERROR") => InMemoryUnchanged]_vars

\* a call passed the five validations, changed both balances and then raised
\* in the user-name lookup (the users table failed to load)
C5_Witness ==
    /\ result.code = "SYSTEM_ERROR"
    /\ Len(call.checks) = 5
    /\ users = EmptyFrame
    /\ accounts # EmptyFrame
    /\ call.source_user_id # call.target_user_id
    /\ IsCents(call.amount)

(* C6 *)

CheckOrder == << "source_user", "target_user", "amount", "funds", "currency" >>

\* what validate_user is to decide: a row of the users table, or one of the
\* fixed ids when the table is empty
Accepted(usrs, user_id) ==
    IF usrs = << >> THEN user_id \in default_user_ids ELSE UserExists(usrs, user_id)

BadAmount(a) == a = NotNumber \/ (a # NaN /\ (a <= 0 \/ a > CEILING))

FundsMissing(acc, user_id, account_type, a) ==
    LET s == FirstMatch(acc, user_id, account_type)
    IN s = 0 \/ (acc[s].balance # NaN /\ a # NaN /\ acc[s].balance < a)

NotBothUSD(acc, su, sty, tu, tty) ==
    LET s == FirstMatch(acc, su, sty)
        t == FirstMatch(acc, tu, tty)
    IN s = 0 \/ t = 0 \/ acc[s].currency # "USD" \/ acc[t].currency # "USD"

\* C6: the checks run in the order source user, target user, amount, funds,
\* currency; the code returned is that of the first check that fails, and no
\* check after it is evaluated.
C6_FirstFailingCheckWins ==
    [][Called =>
        LET c == call'
            su == c.source_user_id
            tu == c.target_user_id
            okS == Accepted(users, su)
            okT == Accepted(users, tu)
            okA == ~BadAmount(c.amount)
            okF == ~FundsMissing(accounts, su, c.source_account_type, c.amount)
            okC == ~NotBothUSD(accounts, su, c.source_account_type,
                               tu, c.target_account_type)
            Stopped(code, n) ==
                result'.code = code /\ c.checks = SubSeq(CheckOrder, 1, n)
        IN /\ c.checks = SubSeq(CheckOrder, 1, Len(c.checks))
           /\ ~okS => Stopped("USER_NOT_FOUND", 1)
           /\ (okS /\ ~okT) => Stopped("USER_NOT_FOUND", 2)
           /\ (okS /\ okT /\ ~okA) => Stopped("INVALID_AMOUNT", 3)
           /\ (okS /\ okT /\ okA /\ accounts # << >> /\ ~okF) =>
                  Stopped("INSUFFICIENT_FUNDS", 4)
           /\ (okS /\ okT /\ okA /\ accounts # << >> /\ okF /\ ~okC) =>
                  Stopped("CURRENCY_MISMATCH", 5)]_vars

\* an unknown source user together with an invalid amount and a source
\* account type that nobody of that name owns: only the first check ran
C6_Witness ==
    /\ result.code = "USER_NOT_FOUND"
    /\ call.source_user_id = "USR999"
    /\ call.target_user_id = "USR999"
    /\ call.amount = 0
    /\ call.checks = << "source_user" >>

(* C7 *)

\* C7: a call that returns a validation code changed nothing: the in-memory
\* tables and the files are as before and save_data was not called; and a
\* transfer of more than the source balance returns INSUFFICIENT_FUNDS.
C7_ValidationFailureChangesNothing ==
    [][/\ (Called /\ result'.code \in ValidationCodes) =>
            /\ InMemoryUnchanged
            /\ FilesUnchanged
            /\ call'.save = "none"
       /\ (/\ Called
           /\ UserExists(users, call'.source_user_id)
           /\ UserExists(users, call'.target_user_id)
           /\ IsCents(call'.amount) /\ call'.amount > 0 /\ call'.amount <= CEILING
           /\ LET s == FirstMatch(accounts, call'.source_user_id,
                                  call'.source_account_type)
              IN s # 0 /\ IsCents(accounts[s].balance)
                       /\ call'.amount > accounts[s].balance) =>
            /\ result'.code = "INSUFFICIENT_FUNDS"
            /\ InMemoryUnchanged
            /\ FilesUnchanged]_vars

\* a transfer of more than the balance of an existing source account was
\* rejected
C7_Witness ==
    /\ result.code = "INSUFFICIENT_FUNDS"
    /\ IsCents(call.amount)
    /\ LET s == FirstMatch(accounts, call.source_user_id, call.source_account_type)
       IN s # 0 /\ IsCents(accounts[s].balance) /\ accounts[s].balance < call.amount

(* C8 *)

\* C8: for existing source and target users, a call with an amount that is
\* zero, negative or above the ceiling returns INVALID_AMOUNT in every
\* reachable state and leaves every table and both files unchanged.
C8_RejectionIsIdempotent ==
    [][(/\ Called
        /\ UserExists(users, call'.source_user_id)
        /\ UserExists(users, call'.target_user_id)
        /\ IsCents(call'.amount)
        /\ (call'.amount <= 0 \/ call'.amount > CEILING)) =>
        /\ result'.status = "error"
        /\ result'.code = "INVALID_AMOUNT"
        /\ InMemoryUnchanged
        /\ FilesUnchanged
        /\ users' = users]_vars

\* an amount above the ceiling is rejected after an earlier transfer succeeded
C8_Witness ==
    /\ result.code = "INVALID_AMOUNT"
    /\ call.amount = CEILING + 1
    /\ UserExists(users, call.source_user_id)
    /\ UserExists(users, call.target_user_id)
    /\ Len(transactions) = 4

(* C9 *)

\* C9: a transfer of exactly the ceiling between existing USD accounts whose
\* source balance is at least the ceiling passes every validation and
\* succeeds when the tables are saved; an amount one cent above the ceiling,
\* or of zero or less, is rejected with INVALID_AMOUNT whatever the balance.
C9_CeilingIsInclusive ==
    [][Called =>
        LET c == call'
            s == FirstMatch(accounts, c.source_user_id, c.source_account_type)
            t == FirstMatch(accounts, c.target_user_id, c.target_account_type)
            usersExist == /\ UserExists(users, c.source_user_id)
                          /\ UserExists(users, c.target_user_id)
        IN /\ (/\ usersExist
               /\ c.amount = CEILING
               /\ s # 0 /\ t # 0
               /\ accounts[s].currency = "USD" /\ accounts[t].currency = "USD"
               /\ IsCents(accounts[s].balance) /\ accounts[s].balance >= CEILING) =>
                 /\ result'.code \notin ValidationCodes
                 /\ c.save = "ok" => result'.status = "success"
           /\ (usersExist /\ IsCents(c.amount) /\ c.amount >= CEILING + 1) =>
                 result'.code = "INVALID_AMOUNT"
           /\ (usersExist /\ IsCents(c.amount) /\ c.amount <= 0) =>
                 result'.code = "INVALID_AMOUNT"]_vars

\* a transfer of exactly 10000.00 succeeded
C9_Witness ==
    /\ result.status = "success"
    /\ call.amount = CEILING
    /\ call.source_user_id # call.target_user_id

(* C10 *)

\* C10: every transfer_money call returns an envelope: status 'success', or
\* status 'error' with one of the six codes; no exception reaches the caller.
C10_AlwaysAnEnvelope ==
    ~Idle =>
        \/ result.status = "success" /\ result.code = ""
        \/ result.status = "error" /\ result.code \in ErrorCodes

\* a call on an instance whose tables failed to load raised inside the funds
\* check and returned SYSTEM_ERROR
C10_Witness ==
    /\ result.code = "SYSTEM_ERROR"
    /\ accounts = EmptyFrame
    /\ call.checks = SubSeq(CheckOrder, 1, 4)

(* C11 *)

\* the number written by a sequence of decimal digits
RECURSIVE Value(_)
Value(ds) == IF ds = << >> THEN 0 ELSE 10 * Value(SubSeq(ds, 1, Len(ds) - 1)) + ds[Len(ds)]

\* ds is n written in decimal and zero-padded to at least 4 digits
IsPadded4(ds, n) ==
    /\ Value(ds) = n
    /\ Len(ds) >= 4
    /\ Len(ds) > 4 => ds[1] # 0

\* the largest number of an id of the table
MaxSuffix(txs) ==
    CHOOSE m \in { Value(txs[k].transaction_id) : k \in 1 .. Len(txs) } :
        \A k \in 1 .. Len(txs) : Value(txs[k].transaction_id) <= m

\* C11: on a table whose ids have the form TX<digits>, a successful transfer
\* returns the id whose number is the largest number of an existing id plus
\* one (1 on the empty table), padded with zeros to at least 4 digits; the
\* debit row carries that id and the credit row the id one greater, whatever
\* the order of the existing ids and the gaps between them.
C11_IdAllocation ==
    [][Succeeded =>
        LET n == Len(transactions)
            next == IF n = 0 THEN 1 ELSE MaxSuffix(transactions) + 1
        IN /\ IsPadded4(result'.transaction_id, next)
           /\ transactions'[n + 1].transaction_id = result'.transaction_id
           /\ IsPadded4(transactions'[n + 2].transaction_id, next + 1)
           /\ n = 0 => result'.transaction_id = <<0, 0, 0, 1>>]_vars

\* a transfer succeeded on a table whose largest id, TX9998, is not the last
\* row: the debit row is TX9999 and the credit row TX10000
C11_Witness ==
    /\ result.status = "success"
    /\ Len(transactions) = 4
    /\ transactions[1].transaction_id = <<9, 9, 9, 8>>
    /\ transactions[2].transaction_id = <<0, 0, 0, 1>>
    /\ transactions[3].transaction_id = <<9, 9, 9, 9>>
    /\ transactions[4].transaction_id = <<1, 0, 0, 0, 0>>

(* C12 *)

\* every id of the table has the form TX<digits>
WellFormedIds(txs) == \A k \in 1 .. Len(txs) : txs[k].transaction_id # << >>

\* the ids of the table are pairwise distinct
DistinctIds(txs) ==
    \A j \in 1 .. Len(txs), k \in 1 .. Len(txs) :
        j # k => txs[j].transaction_id # txs[k].transaction_id

\* C12: on a table whose ids are pairwise distinct and of the form
\* TX<digits>, every transfer_money call, whatever its outcome, leaves a
\* table whose ids are pairwise distinct and of that form, and the ids of the
\* rows added by a successful call have numbers strictly greater than that
\* of every id present before the call.
C12_IdsUniqueAndIncreasing ==
    [][(Called /\ WellFormedIds(transactions) /\ DistinctIds(transactions)) =>
        /\ WellFormedIds(transactions')
        /\ DistinctIds(transactions')
        /\ Succeeded =>
             \A new \in Len(transactions) + 1 .. Len(transactions') :
                \A old \in 1 .. Len(transactions) :
                    Value(transactions'[new].transaction_id)
                        > Value(transactions[old].transaction_id)]_vars

\* a second transfer succeeded after a first one: the table holds the two
\* loaded ids and the four allocated ones
C12_Witness ==
    /\ result.status = "success"
    /\ Len(transactions) = 6
    /\ [k \in 1 .. 6 |-> Value(transactions[k].transaction_id)] = <<1, 3, 4, 5, 6, 7>>

(* C13 *)

\* C13: the transactions table is append-only: every step leaves the rows
\* that were in the table in place and unchanged, whatever the outcome of the
\* call; a call that is rolled back leaves exactly the rows it found.
C13_AppendOnly ==
    [][/\ Len(transactions') >= Len(transactions)
       /\ SubSeq(transactions', 1, Len(transactions)) = transactions
       /\ Failed => transactions' = transactions]_vars

\* a call was rolled back after save_data failed, on a table that holds the
\* two rows of an earlier successful transfer behind the two loaded rows
C13_Witness ==
    /\ result.code = "SAVE_FAILURE"
    /\ Len(transactions) = 4
    /\ SubSeq(transactions, 1, 2) \in TransactionsTables
    /\ transactions[3].category = "Transfers"
    /\ transactions[4].category = "Transfers"

(* C15 *)

\* rows a and b are equal in every field but the balance
SameButBalance(a, b) == [a EXCEPT !.balance = 0] = [b EXCEPT !.balance = 0]

\* C15: a transfer_money call either changes nothing in the in-memory tables,
\* or it changes at most the balance of the source row and the balance of
\* the target row and appends two transaction rows behind the existing ones;
\* every other account row, every other field of the two rows and the users
\* table are left as they were by every call.
C15_Frame ==
    [][Called =>
        LET s == FirstMatch(accounts, call'.source_user_id, call'.source_account_type)
            t == FirstMatch(accounts, call'.target_user_id, call'.target_account_type)
        IN /\ users' = users
           /\ \/ InMemoryUnchanged
              \/ /\ Len(accounts') = Len(accounts)
                 /\ \A k \in 1 .. Len(accounts) :
                       /\ SameButBalance(accounts'[k], accounts[k])
                       /\ k \notin {s, t} => accounts'[k] = accounts[k]
                 /\ Len(transactions') = Len(transactions) + 2
                 /\ SubSeq(transactions', 1, Len(transactions)) = transactions]_vars

\* a transfer from USR001 to USR002 succeeded: the balances of ACC001 and
\* ACC003 changed, ACC002 and the second savings account of USR001, ACC004,
\* are as loaded
C15_Witness ==
    /\ result.status = "success"
    /\ call.source_user_id = "USR001"
    /\ call.target_user_id = "USR002"
    /\ Len(transactions) = 4
    /\ accounts[1].balance # AccountsTable[1].balance
    /\ accounts[3].balance # AccountsTable[3].balance
    /\ accounts[2] = AccountsTable[2]
    /\ accounts[4] = AccountsTable[4]

(* C16 *)

\* C16: after every successful call the balance_after of the new debit row
\* is the stored balance of the source account and the balance_after of the
\* new credit row is the stored balance of the target account, for every
\* choice of source and target account (stated for the amounts that are
\* numbers).
C16_BalanceAfterIsStored ==
    [][(Succeeded /\ IsCents(call'.amount)) =>
        LET n == Len(transactions)
            s == FirstMatch(accounts, call'.source_user_id, call'.source_account_type)
            t == FirstMatch(accounts, call'.target_user_id, call'.target_account_type)
        IN /\ transactions'[n + 1].balance_after = accounts'[s].balance
           /\ transactions'[n + 2].balance_after = accounts'[t].balance]_vars

(* C14 *)

\* the table with its date column converted by pd.to_datetime
Converted(txs) ==
    IF txs = << >> THEN << >>
    ELSE [k \in 1 .. Len(txs) |-> [txs[k] EXCEPT !.date = to_datetime(@)]]

PeerCalled == peer.result.status = "none" /\ peer'.result.status # "none"
PeerSucceeded == PeerCalled /\ peer'.result.status = "success"

\* the tables that both instances loaded
Snapshot == load_data(AccountsCsv, OverlapCsv, UsersCsv, "ok")

\* what a fresh instance would load from the files
Stored(af, tf) == load_data(af, tf, UsersCsv, "ok")

\* C17: there is no lock and no version check: after a successful call the
\* files hold exactly the tables of the instance that made it.  When an
\* instance succeeds on the tables it loaded after the other instance has
\* written its own successful transfer, the files hold as many transaction
\* rows as before, none of them written by the first writer, and the stored
\* balances are those of the loaded tables changed by the last transfer
\* alone, although both callers were told 'success'.
C17_LastWriterWins ==
    [][/\ Succeeded =>
            /\ Stored(accounts_file', transactions_file').accounts = accounts'
            /\ Stored(accounts_file', transactions_file').transactions
                   = Converted(transactions')
       /\ PeerSucceeded =>
            /\ Stored(accounts_file', transactions_file').accounts = peer'.accounts
            /\ Stored(accounts_file', transactions_file').transactions
                   = Converted(peer'.transactions)
       /\ (/\ Succeeded
           /\ accounts = Snapshot.accounts /\ transactions = Snapshot.transactions
           /\ peer.result.status = "success"
           /\ Stored(accounts_file, transactions_file).transactions
                  = Converted(peer.transactions)
           /\ Len(peer.transactions) = Len(Snapshot.transactions) + 2) =>
            LET s == FirstMatch(accounts, call'.source_user_id, call'.source_account_type)
                t == FirstMatch(accounts, call'.target_user_id, call'.target_account_type)
                stored == Stored(accounts_file', transactions_file')
            IN /\ Len(transactions_file') = Len(transactions_file)
               /\ stored.transactions = Snapshot.transactions
                      \o Converted(SubSeq(transactions', Len(transactions) + 1,
                                          Len(transactions) + 2))
               /\ stored.accounts[s].balance
                      = FSub(Snapshot.accounts[s].balance, call'.amount)
               /\ stored.accounts[t].balance
                      = FAdd(Snapshot.accounts[t].balance, call'.amount)
               /\ \A k \in 1 .. Len(accounts) :
                      k \notin {s, t} => stored.accounts[k] = Snapshot.accounts[k]]_vars

\* both instances were told 'success' for their first transfer on the loaded
\* tables, the page wrote last, and the total of the stored balances is not
\* the total that both transfers together give
C17_Witness ==
    /\ result.status = "success"
    /\ peer.result.status = "success"
    /\ Len(transactions) = Len(Snapshot.transactions) + 2
    /\ Len(peer.transactions) = Len(Snapshot.transactions) + 2
    /\ Stored(accounts_file, transactions_file).accounts = accounts
    /\ Len(transactions_file) = Len(Snapshot.transactions) + 2
    /\ SumBalances(Stored(accounts_file, transactions_file).accounts)
         # SumBalances(Snapshot.accounts)
             + (SumBalances(accounts) - SumBalances(Snapshot.accounts))
             + (SumBalances(peer.accounts) - SumBalances(Snapshot.accounts))

(* C18 *)

\* C18: when both instances have completed their first successful transfer
\* on the tables they loaded, both callers are told the same transaction_id,
\* and the debit rows and the credit rows of the two transfers carry the same
\* two ids.
C18_SameIdsFromSameSnapshot ==
    (/\ result.status = "success"
     /\ peer.result.status = "success"
     /\ Len(transactions) = Len(Snapshot.transactions) + 2
     /\ Len(peer.transactions) = Len(Snapshot.transactions) + 2) =>
        LET n == Len(Snapshot.transactions)
        IN /\ result.transaction_id = peer.result.transaction_id
           /\ transactions[n + 1].transaction_id = peer.transactions[n + 1].transaction_id
           /\ transactions[n + 2].transaction_id = peer.transactions[n + 2].transaction_id

\* two transfers with different sources and targets were both reported under
\* the same transaction id
C18_Witness ==
    /\ result.status = "success"
    /\ peer.result.status = "success"
    /\ call.source_user_id # peer.call.source_user_id
    /\ call.target_user_id # peer.call.target_user_id
    /\ result.transaction_id = peer.result.transaction_id
    /\ result.transaction_id # NoTxId

----------------------------------------------------------------------------
\* the rows of the calling user's accounts of another type than the source
\* account that hold at least the amount
OtherAccountsWithFunds ==
    { j \in 1 .. Len(accounts) :
        /\ accounts[j].owner_id = call'.source_user_id
        /\ accounts[j].account_type # call'.source_account_type
        /\ ~IsNaN(accounts[j].balance)
        /\ accounts[j].balance >= call'.amount }

\* C20: whenever transfer_money is refused because the balance of the source
\* account is below the amount, the message carries a suggestion exactly
\* when the source user owns an account of a different type whose balance is
\* at least the amount, and then it names the first such account in table
\* order; when there is no such account the message carries no suggestion.
C20_SuggestionNamesFirstAccountWithFunds ==
    [][(/\ Called
        /\ call'.method = "transfer_money"
        /\ result'.code = "INSUFFICIENT_FUNDS"
        /\ FirstMatch(accounts, call'.source_user_id, call'.source_account_type) # 0)
       => /\ (result'.suggestion # "") <=> (OtherAccountsWithFunds # {})
          /\ OtherAccountsWithFunds # {}
                => /\ result'.suggestion = accounts[Min(OtherAccountsWithFunds)].account_id
                   /\ \A j \in OtherAccountsWithFunds :
                          accounts[j].account_id # result'.suggestion
                            => j > Min(OtherAccountsWithFunds)]_vars

\* reached: a transfer from the checking account was refused for lack of
\* funds while both savings accounts of the user hold the amount; the
\* suggestion names the first of them
C20_Witness ==
    /\ call.method = "transfer_money"
    /\ result.code = "INSUFFICIENT_FUNDS"
    /\ call.source_user_id = "USR001"
    /\ call.source_account_type = "CHECKING"
    /\ FGe(accounts[1].balance, call.amount)
    /\ FGe(accounts[4].balance, call.amount)
    /\ result.suggestion = "ACC001"

\* reached: a transfer was refused for lack of funds and no other account of
\* the user holds the amount; the message carries no suggestion
C20_WitnessNoSuggestion ==
    /\ call.method = "transfer_money"
    /\ result.code = "INSUFFICIENT_FUNDS"
    /\ call.source_user_id = "USR002"
    /\ FirstMatch(accounts, "USR002", call.source_account_type) # 0
    /\ result.suggestion = ""

----------------------------------------------------------------------------
\* the page asked for the transfer history of an existing user who has an
\* account of the requested type
HistoryCalled ==
    /\ Called
    /\ call'.method = "get_transfer_history"
    /\ UserExists(users, call'.user_id)
    /\ \E j \in 1 .. Len(accounts) :
          /\ accounts[j].owner_id = call'.user_id
          /\ call'.account_type \in {"", accounts[j].account_type}

\* the transfers of the user's accounts (of the requested type) that are not
\* older than the requested number of days
TransfersInWindow ==
    { k \in 1 .. Len(transactions) :
        /\ \E j \in 1 .. Len(accounts) :
              /\ accounts[j].owner_id = call'.user_id
              /\ call'.account_type \in {"", accounts[j].account_type}
              /\ accounts[j].account_id = transactions[k].account_id
        /\ transactions[k].category = "Transfers"
        /\ to_datetime(transactions[k].date).kind # "NaT"
        /\ to_datetime(transactions[k].date).t >= call'.now - call'.days }

\* the envelope lists exactly the rows of S, newest first
ListsNewestFirst(env, S) ==
    /\ env.status = "success"
    /\ Len(env.transfers) = Cardinality(S)
    /\ { env.transfers[i].transaction_id : i \in 1 .. Len(env.transfers) }
          = { transactions[k].transaction_id : k \in S }
    /\ \A i \in 1 .. Len(env.transfers) : \A j \in i .. Len(env.transfers) :
          env.transfers[i].date >= env.transfers[j].date

\* C19: get_transfer_history for an existing user with at least one matching
\* account returns 'success' with exactly the transactions of that user's
\* accounts (of the account type when given) whose category is 'Transfers'
\* and whose date is not older than the current time minus `days` days,
\* newest first; other users' transactions, other categories and
\* transactions older than the window never appear.
C19_HistoryInWindow ==
    [][HistoryCalled => ListsNewestFirst(result', TransfersInWindow)]_vars

\* the same statement for histories whose dates carry no UTC offset
C19_HistoryInWindowNaiveDates ==
    [][HistoryCalled /\ ~tz_aware(transactions)
         => ListsNewestFirst(result', TransfersInWindow)]_vars

\* reached: the history was loaded from dates with a UTC offset and the
\* envelope lists a transfer made 40 days before the call for a window of 7
\* days
C19_OlderThanWindowListed ==
    /\ call.method = "get_transfer_history"
    /\ call.days = 7
    /\ result.status = "success"
    /\ \E i \in 1 .. Len(result.transfers) :
          result.transfers[i].date < call.now - call.days

\* reached: a history of dates without UTC offset, queried over 30 days
\* after a transfer was made, lists the new transfer first and leaves out
\* the transfer of 40 days ago
C19_WitnessNaiveDates ==
    /\ call.method = "get_transfer_history"
    /\ call.user_id = "USR001"
    /\ call.days = 30
    /\ Len(transactions) = 6
    /\ Len(result.transfers) = 2
    /\ result.transfers[1].transaction_id = <<0, 0, 0, 5>>
    /\ result.transfers[2].transaction_id = <<0, 0, 0, 2>>

----------------------------------------------------------------------------
\* C23: for a request that passed the user, amount and funds checks and whose
\* source and target accounts both exist, transfer_money returns
\* CURRENCY_MISMATCH if the currency of the source account or of the target
\* account is not 'USD', and does not return CURRENCY_MISMATCH when both are
\* 'USD'; no transfer succeeds with a non-USD source or target account.
C23_CurrencyCheck ==
    [][Called =>
        LET c == call'
            s == FirstMatch(accounts, c.source_user_id, c.source_account_type)
            t == FirstMatch(accounts, c.target_user_id, c.target_account_type)
        IN /\ (/\ Accepted(users, c.source_user_id)
               /\ Accepted(users, c.target_user_id)
               /\ ~BadAmount(c.amount)
               /\ s # 0 /\ t # 0
               /\ ~FundsMissing(accounts, c.source_user_id, c.source_account_type,
                                c.amount))
              => IF accounts[s].currency # "USD" \/ accounts[t].currency # "USD"
                 THEN result'.status = "error" /\ result'.code = "CURRENCY_MISMATCH"
                 ELSE result'.code # "CURRENCY_MISMATCH"
           /\ result'.status = "success"
              => /\ s # 0 /\ t # 0
                 /\ accounts[s].currency = "USD" /\ accounts'[s].currency = "USD"
                 /\ accounts[t].currency = "USD" /\ accounts'[t].currency = "USD"]_vars

\* reached: a transfer of 50.00 from the USD savings account of USR001, which
\* holds the amount, to the EUR checking account of the same user was
\* refused with CURRENCY_MISMATCH
C23_Witness ==
    /\ result.code = "CURRENCY_MISMATCH"
    /\ call.source_user_id = "USR001"
    /\ call.source_account_type = "REGULAR_SAVINGS"
    /\ call.target_user_id = "USR001"
    /\ call.target_account_type = "CHECKING"
    /\ call.amount = 5000
    /\ accounts[1].currency = "USD"
    /\ accounts[2].currency = "EUR"

----------------------------------------------------------------------------
\* the balance is a number and not below zero
NonNegative(x) == IsCents(x) /\ x >= 0

\* what C26 says of one transfer_money call
NoOverdraftStep ==
    LET c == call'
        s == FirstMatch(accounts, c.source_user_id, c.source_account_type)
    IN /\ (\A k \in 1 .. Len(accounts) : NonNegative(accounts[k].balance))
          => \A k \in 1 .. Len(accounts') : NonNegative(accounts'[k].balance)
       /\ result'.status = "success"
          => /\ s # 0
             /\ FLe(c.amount, accounts[s].balance)
       /\ (s # 0 /\ FLt(accounts[s].balance, c.amount))
          => /\ result'.status = "error"
             /\ accounts' = accounts

\* C26: starting from an accounts table in which every balance is
\* non-negative, every balance is non-negative after every transfer_money
\* call; a successful transfer never takes more from the source account than
\* its balance at the time of the call, and an account whose balance is below
\* the amount is never debited.
C26_NoOverdraft ==
    [][Called => NoOverdraftStep]_vars

\* the same statement for the calls whose amount is a number, made on a
\* table in which every balance is non-negative
C26_NoOverdraftForNumbers ==
    [][(/\ Called
        /\ IsCents(call'.amount)
        /\ \A k \in 1 .. Len(accounts) : NonNegative(accounts[k].balance))
       => NoOverdraftStep]_vars

\* reached: a transfer with the amount NaN returned 'success' and the
\* balance of the source account is NaN
C26_NaNBalance ==
    /\ result.status = "success"
    /\ IsNaN(call.amount)
    /\ \E k \in 1 .. Len(accounts) : IsNaN(accounts[k].balance)

\* reached: USR002 transferred the full balance of 50.00 to USR001; the
\* transfer succeeded and left zero
C26_WitnessFullBalance ==
    /\ result.status = "success"
    /\ call.source_user_id = "USR002"
    /\ call.target_user_id = "USR001"
    /\ call.amount = 5000
    /\ accounts[3].balance = 0
    /\ result.source_balance = 0

----------------------------------------------------------------------------
\* the persisted tables are as before the call, and an instance created
\* after the call loads the balances of before the call
StorageUnchanged ==
    /\ FilesUnchanged
    /\ Stored(accounts_file', transactions_file').accounts
         = Stored(accounts_file, transactions_file).accounts

\* C27: whenever transfer_money returns status 'error', with any code,
\* SAVE_FAILURE after the accounts table was written and the write of the
\* transactions table failed included, the persisted accounts table and the
\* persisted transactions table equal their contents before the call, so
\* that an instance created afterwards loads the pre-call balances.
C27_AllOrNothingOnStorage ==
    [][Failed => StorageUnchanged]_vars

\* the same statement for the errors other than a failure of the second
\* write of save_data
C27_StorageUnchangedUnlessSecondWriteFails ==
    [][(Failed /\ call'.save # "fail_transactions") => StorageUnchanged]_vars

\* reached: the write of the transactions table failed, the call returned
\* SAVE_FAILURE with the in-memory balances restored, and accounts.csv holds
\* the balances of the aborted transfer
C27_AccountsFileKeepsAbortedTransfer ==
    /\ result.code = "SAVE_FAILURE"
    /\ call.save = "fail_transactions"
    /\ call.source_user_id = "USR001"
    /\ call.target_user_id = "USR002"
    /\ call.amount = 5000
    /\ Stored(accounts_file, transactions_file).accounts # accounts
    /\ Stored(accounts_file, transactions_file).accounts[3].balance
         = accounts[3].balance + 5000

----------------------------------------------------------------------------
\* C28: transfer_money returns INSUFFICIENT_FUNDS only when the source
\* account exists and its balance is below the amount, and CURRENCY_MISMATCH
\* only when both accounts exist and one of them has a currency other than
\* USD; a request naming an account type that the source user or the target
\* user does not own is never reported under either of these two codes.
C28_CodesNameTheFailedCheck ==
    [][Called =>
        LET c == call'
            s == FirstMatch(accounts, c.source_user_id, c.source_account_type)
            t == FirstMatch(accounts, c.target_user_id, c.target_account_type)
        IN /\ result'.code = "INSUFFICIENT_FUNDS"
              => s # 0 /\ FLt(accounts[s].balance, c.amount)
           /\ result'.code = "CURRENCY_MISMATCH"
              => /\ s # 0 /\ t # 0
                 /\ accounts[s].currency # "USD" \/ accounts[t].currency # "USD"
           /\ (s = 0 \/ t = 0)
              => result'.code \notin {"INSUFFICIENT_FUNDS", "CURRENCY_MISMATCH"}]_vars

\* the same statement for the requests whose source and target accounts
\* both exist
C28_CodesNameTheFailedCheckOfExistingAccounts ==
    [][(/\ Called
        /\ FirstMatch(accounts, call'.source_user_id, call'.source_account_type) # 0
        /\ FirstMatch(accounts, call'.target_user_id, call'.target_account_type) # 0)
       => LET c == call'
              s == FirstMatch(accounts, c.source_user_id, c.source_account_type)
              t == FirstMatch(accounts, c.target_user_id, c.target_account_type)
          IN /\ result'.code = "INSUFFICIENT_FUNDS"
                => FLt(accounts[s].balance, c.amount)
             /\ result'.code = "CURRENCY_MISMATCH"
                => accounts[s].currency # "USD" \/ accounts[t].currency # "USD"]_vars

\* reached: USR002, who owns no checking account, asked for a transfer from
\* checking and was answered INSUFFICIENT_FUNDS
C28_MissingSourceIsInsufficientFunds ==
    /\ result.code = "INSUFFICIENT_FUNDS"
    /\ result.message = "Account not found"
    /\ call.source_user_id = "USR002"
    /\ call.source_account_type = "CHECKING"
    /\ FirstMatch(accounts, "USR002", "CHECKING") = 0

\* reached: a transfer to the checking account that USR002 does not own was
\* answered CURRENCY_MISMATCH
C28_MissingTargetIsCurrencyMismatch ==
    /\ result.code = "CURRENCY_MISMATCH"
    /\ result.message = "One or both accounts not found"
    /\ call.target_user_id = "USR002"
    /\ call.target_account_type = "CHECKING"
    /\ FirstMatch(accounts, call.source_user_id, call.source_account_type) # 0

----------------------------------------------------------------------------
\* the ids that validate_user is to accept without a users table
FixedIds == {"USR001", "USR002", "USR003", "USR004", "USR005"}

\* ids asked of validate_user: the fixed ones, the ones of the requests, and
\* ids next to the fixed ones
ProbedIds == FixedIds \cup UserIds \cup {"USR000", "USR006", "usr001", ""}

\* C29: when the users table is empty because it failed to load,
\* validate_user accepts exactly the ids USR001 to USR005, no transfer_money
\* call returns 'success' or writes to storage, and a call that passes the
\* four checks and changes the balances fails on the user-name lookup,
\* returns SYSTEM_ERROR and leaves the in-memory accounts and transactions
\* tables equal to their contents before the call.
C29_DegradedModeNeverCommits ==
    [][(Called /\ users = EmptyFrame) =>
        LET c == call'
        IN /\ \A u \in ProbedIds : validate_user(users, u) <=> u \in FixedIds
           /\ (result'.code = "USER_NOT_FOUND")
                <=> (c.source_user_id \notin FixedIds \/ c.target_user_id \notin FixedIds)
           /\ result'.status = "error"
           /\ FilesUnchanged
           /\ c.save = "none"
           /\ InMemoryUnchanged
           /\ (/\ c.source_user_id \in FixedIds
               /\ c.target_user_id \in FixedIds
               /\ ~BadAmount(c.amount)
               /\ accounts # EmptyFrame
               /\ ~FundsMissing(accounts, c.source_user_id, c.source_account_type,
                                c.amount)
               /\ ~NotBothUSD(accounts, c.source_user_id, c.source_account_type,
                              c.target_user_id, c.target_account_type))
              => /\ result'.code = "SYSTEM_ERROR"
                 /\ Len(c.checks) = 5]_vars

\* reached: users.csv failed to load; a transfer of 50.00 from USR001 to
\* USR002 passed the checks and was answered SYSTEM_ERROR, and the tables
\* and the files hold the balances of before
C29_Witness ==
    /\ users = EmptyFrame
    /\ accounts = AccountsTable
    /\ accounts_file = AccountsCsv
    /\ result.code = "SYSTEM_ERROR"
    /\ call.source_user_id = "USR001"
    /\ call.target_user_id = "USR002"
    /\ call.amount = 5000
    /\ call.source_account_type = "REGULAR_SAVINGS"
    /\ call.target_account_type = "REGULAR_SAVINGS"
    /\ call.checks = CheckOrder

----------------------------------------------------------------------------
\* C22: validate_user, get_account_by_type, validate_amount,
\* check_sufficient_funds, validate_currency, generate_transaction_id,
\* get_transfer_history, get_accounts_with_sufficient_funds and the option
\* helpers leave the in-memory accounts, transactions and users tables and
\* the persisted tables unchanged, in every state and for every argument;
\* a step that changes a balance, in memory or in accounts.csv, is a
\* transfer_money call.
C22_OnlyTransferMoneyChangesBalances ==
    [][/\ (Called /\ call'.method # "transfer_money")
          => /\ accounts' = accounts
             /\ transactions' = transactions
             /\ users' = users
             /\ FilesUnchanged
       /\ (accounts' # accounts \/ accounts_file' # accounts_file)
          => Called /\ call'.method = "transfer_money"]_vars

\* reached: the history was queried on the instance that had appended the
\* two rows of a transfer, whose dates it holds as text beside the
\* Timestamps of the loaded rows
C22_Witness ==
    /\ call.method = "get_transfer_history"
    /\ result.status = "success"
    /\ Len(result.transfers) > 0
    /\ Len(transactions) = 6
    /\ transactions[1].date.kind = "naive"
    /\ transactions[6].date.kind = "str"
    /\ accounts # AccountsTable

----------------------------------------------------------------------------
\* the envelopes that get_transfer_history(user_id) can return on the given
\* tables when it is called at the time since or later, for the windows of
\* the model (all of at least one day)
HistoryOf(usrs, acc, txs, user_id, since) ==
    UNION { get_transfer_history(usrs, acc, txs, now, user_id, days, "") :
              now \in { t \in Times : t >= since }, days \in Days }

\* the envelope is a 'success' listing the row with this id on this account
ListsRow(env, transaction_id, account_id) ==
    /\ env.status = "success"
    /\ \E i \in 1 .. Len(env.transfers) :
          /\ env.transfers[i].transaction_id = transaction_id
          /\ env.transfers[i].account_id = account_id

\* the tables of the instance after the step, and the tables that an
\* instance created after the step loads
SameInstanceAfter == [users |-> users', accounts |-> accounts', transactions |-> transactions']
FreshInstanceAfter == Stored(accounts_file', transactions_file')
FreshInstanceBefore == Stored(accounts_file, transactions_file)

\* every history query that follows the successful transfer lists the debit
\* row under the returned id for the source user and the credit row for the
\* target user
CommittedTransferListed(inst) ==
    LET c == call'
        s == FirstMatch(accounts, c.source_user_id, c.source_account_type)
        t == FirstMatch(accounts, c.target_user_id, c.target_account_type)
        credit_id == Format04d(ParseInt(result'.transaction_id) + 1)
    IN /\ \A env \in HistoryOf(inst.users, inst.accounts, inst.transactions,
                                c.source_user_id, result'.timestamp) :
             ListsRow(env, result'.transaction_id, accounts[s].account_id)
       /\ \A env \in HistoryOf(inst.users, inst.accounts, inst.transactions,
                                c.target_user_id, result'.timestamp) :
             ListsRow(env, credit_id, accounts[t].account_id)

\* the history of both users is what it was before the failed call
HistoryAsBefore ==
    \A u \in {call'.source_user_id, call'.target_user_id} :
        /\ HistoryOf(users', accounts', transactions', u, 0)
             = HistoryOf(users, accounts, transactions, u, 0)
        /\ HistoryOf(FreshInstanceAfter.users, FreshInstanceAfter.accounts,
                     FreshInstanceAfter.transactions, u, 0)
             = HistoryOf(FreshInstanceBefore.users, FreshInstanceBefore.accounts,
                         FreshInstanceBefore.transactions, u, 0)

\* this step is a transfer_money call
TransferCalled == Called /\ call'.method = "transfer_money"

\* C30: after transfer_money returns 'success', a following
\* get_transfer_history(source_user_id) with days >= 1, on the same instance
\* or on an instance loaded from storage afterwards, returns 'success' and
\* contains the debit row with the returned transaction_id, and
\* get_transfer_history(target_user_id) contains the credit row; after a
\* call that returned 'error' the history of both users is the same as
\* before the call.
C30_CommittedTransferIsVisible ==
    [][/\ (TransferCalled /\ result'.status = "success")
          => /\ CommittedTransferListed(SameInstanceAfter)
             /\ CommittedTransferListed(FreshInstanceAfter)
       /\ (TransferCalled /\ result'.status = "error") => HistoryAsBefore]_vars

\* the same statement for histories whose dates carry no UTC offset
C30_VisibleWithNaiveDates ==
    [][/\ (TransferCalled /\ result'.status = "success" /\ ~tz_aware(transactions))
          => /\ CommittedTransferListed(SameInstanceAfter)
             /\ CommittedTransferListed(FreshInstanceAfter)
       /\ (TransferCalled /\ result'.status = "error") => HistoryAsBefore]_vars

\* reached: on a history loaded with UTC offsets a transfer of USR001 was
\* committed, and the history of USR001 queried on the same instance is
\* answered 'No transfers found'
C30_CommittedTransferNotListed ==
    /\ call.method = "get_transfer_history"
    /\ call.user_id = "USR001"
    /\ Len(transactions) = 6
    /\ transactions[5].account_id = "ACC001"
    /\ transactions[5].date.kind = "str"
    /\ result.status = "success"
    /\ result.transfers = << >>

\* reached: on a history without UTC offsets the same query lists the debit
\* row of the committed transfer first
C30_WitnessNaiveDates ==
    /\ call.method = "get_transfer_history"
    /\ call.user_id = "USR001"
    /\ Len(transactions) = 6
    /\ transactions[5].date.kind = "str"
    /\ result.status = "success"
    /\ Len(result.transfers) > 0
    /\ result.transfers[1].transaction_id = transactions[5].transaction_id
    /\ result.transfers[1].account_id = "ACC001"

(* C25 *)
\* Duplicate suppression in the chat handlers.  In every run of
\* process_text_message or process_voice_message: a message whose key
\* 'text:user_id' is in processed_messages is skipped, which adds nothing to
\* the chat history, generates no response, calls no transfer and leaves
\* processed_messages and the files as they were; a message that is handled
\* was not in processed_messages and its key is added to it, and the chat
\* history then receives the message and a response; and processed_messages
\* never holds more than 20 keys: a set that the added key brings to more
\* than 20 keys is cut to 10 of them.
LastKey == message_hash(session'.last.text, session.current_user_id)

C25_Skipped ==
    session'.last.outcome = "skipped" =>
        /\ \/ session'.last.text # OtherText /\ LastKey \in session.processed_messages.keys
           \/ session'.last.text = OtherText /\ session.processed_messages.others > 0
        /\ session'.last.added = << >>
        /\ session'.last.response = ""
        /\ session'.processed_messages = session.processed_messages
        /\ call' = NoCall
        /\ UNCHANGED <<accounts_file, transactions_file>>

C25_Handled ==
    (session'.last.outcome = "handled") =>
        /\ session'.last.text # OtherText => LastKey \notin session.processed_messages.keys
        /\ Len(session'.last.added) = 2
        /\ session'.last.added[1] = [type |-> "human", content |-> session'.last.text]
        /\ session'.last.added[2].type = "ai" /\ session'.last.added[2].content # ""
        /\ IF Size(session.processed_messages) < SizeLimit
           THEN /\ Size(session'.processed_messages) = Size(session.processed_messages) + 1
                /\ session.processed_messages.keys \subseteq session'.processed_messages.keys
                /\ session'.last.text # OtherText =>
                       LastKey \in session'.processed_messages.keys
           ELSE /\ Size(session'.processed_messages) = KeptSize
                /\ session'.processed_messages.keys \subseteq
                       session.processed_messages.keys \cup {LastKey}

C25_WitnessSkipped ==
    /\ session.last.outcome = "skipped"
    /\ session.last.channel = "voice"
    /\ session.last.text = TravelText
    /\ Size(session.processed_messages) = SizeLimit

(* C21 *)
\* Whenever a message handled by the conversational layer, typed or spoken,
\* is classified with the Money_Transfer intent, transfer_money is invoked:
\* no such message is answered without a call of transfer_money.
ClassifiedAsTransfer ==
    /\ session'.last.outcome = "handled"
    /\ replace_underscores(session'.last.intent) = "Money Transfer"

Invoked == call'.method = "transfer_money"

C21_TransferIntentInvokesExecutor == [][ClassifiedAsTransfer => Invoked]_vars

\* A spoken message classified as a transfer, in which the analyzer finds a
\* transfer pattern and an amount other than zero, invokes transfer_money
\* with the extracted parameters and the user on both sides.
C21_SpokenCommandWithAmountInvokes ==
    [][(/\ ClassifiedAsTransfer
        /\ session'.last.channel = "voice"
        /\ primary_intent(session'.last.text) = "Money_Transfer"
        /\ matched_amount(session'.last.text) \notin {NotNumber, 0}) =>
           /\ Invoked
           /\ call'.amount = matched_amount(session'.last.text)
           /\ call'.source_user_id = session.current_user_id
           /\ call'.target_user_id = session.current_user_id]_vars

\* A typed message never invokes transfer_money.
C21_TypedMessageNeverInvokes ==
    [][session'.last.channel = "text" => ~Invoked]_vars

\* a typed command with an amount, classified as a transfer, was answered by
\* the prompt of the handler and no transfer was called
C21_TypedCommandAnsweredWithPrompt ==
    /\ session.last.channel = "text"
    /\ session.last.outcome = "handled"
    /\ session.last.intent = "Money_Transfer"
    /\ session.last.text = TravelText
    /\ session.last.response = TransferPrompt
    /\ call = NoCall

\* a spoken command with an amount was executed
C21_SpokenCommandExecuted ==
    /\ session.last.channel = "voice"
    /\ session.last.text = TravelText
    /\ session.last.response = Transferred
    /\ call.method = "transfer_money"
    /\ result.status = "success"

(* C24 *)
\* The application cannot transfer money to the same account: no call of
\* transfer_money made by the transfer form or by a spoken transfer command
\* names the same user and the same account type as source and as target.
SameAccount(c) ==
    /\ c.source_user_id = c.target_user_id
    /\ c.source_account_type = c.target_account_type

C24_NoSameAccountTransfer == [][Invoked => ~SameAccount(call')]_vars

\* The transfer form makes no call with the same user and the same account
\* type on both sides: the Transfer button is disabled for that selection.
C24_FormNeverSameAccount ==
    [][(Invoked /\ session'.last.channel = "form") => ~SameAccount(call')]_vars

\* a spoken command moved money from the savings account to itself, and the
\* call succeeded
C24_SameAccountTransferExecuted ==
    /\ session.last.channel = "voice"
    /\ session.last.text = SameAccountText
    /\ call.method = "transfer_money"
    /\ SameAccount(call)
    /\ result.status = "success"

\* the form made a transfer
C24_FormTransferExecuted ==
    /\ session.last.channel = "form"
    /\ call.method = "transfer_money"
    /\ call.source_user_id = call.target_user_id
    /\ result.status = "success"

====
